---- MODULE Spec2Model ----
(***************************************************************************)
(* ProShop AI tool layer: the admin product mutations                      *)
(* (updateProductDetails, bulkUpdateProducts, updateProductStock), the     *)
(* cart, review, order and search tools, against a REST backend.           *)
(*                                                                         *)
(* Every exposed function is an async function: it runs to its next await  *)
(* in one step, so a caller is a process whose position (pc) is the await  *)
(* it is suspended at.  A fetch is modelled by the step that resumes the   *)
(* caller with the fetch's outcome; the backend reads or writes its store  *)
(* in that same step, which orders the backend's operations in every way   *)
(* the callers' own sequencing allows.                                     *)
(***************************************************************************)
EXTENDS Integers, Sequences, FiniteSets, TLC

VARIABLES
    server,         \* backend store: product id -> product document
    pc,             \* caller -> "off" | "idle" | "get" | "put" | "done"
    call,           \* caller -> the function called and its arguments
    loc,            \* caller -> the locals of the running function
    ret,            \* caller -> what the call gave back to its caller
    net,            \* every fetch performed so far, in the backend's order
    invalidations,  \* the 'api/invalidateTags' actions dispatched, in order
    cart,           \* store.getState().cart: the Redux cart slice
    dispatched,     \* the cart slice's actions dispatched to the store, in order
    view            \* the mounted component: its props and its useState values

vars == <<server, pc, call, loc, ret, net, invalidations, cart, dispatched, view>>

----------------------------------------------------------------------------
(* Bounds of the model *)

MaxStock == 3       \* largest countInStock of the product at the start
MaxDelta == 4       \* largest newStockLevel argument of updateProductStock
MaxIds   == 2       \* longest productIds list of bulkUpdateProducts

Procs == {1, 2}     \* concurrent callers (two admins, two chat tool calls)

----------------------------------------------------------------------------
(* Values *)

Null == [null |-> TRUE]                 \* JavaScript null / undefined object

SeqToSet(s) == {s[i] : i \in 1..Len(s)}

\* The seven writable fields, in the order of the allow-list.
allowedFields ==
    <<"name", "price", "description", "image", "brand", "category", "countInStock">>

\* An updates object is [present, entries]: present is FALSE for a missing
\* (undefined/null) argument; entries are the object's own properties in
\* insertion order, each [key, def, val], def = FALSE for a property whose
\* value is undefined.
NoUpdates == [present |-> FALSE, entries |-> <<>>]
Obj(entries) == [present |-> TRUE, entries |-> entries]
Prop(k, v) == [key |-> k, def |-> TRUE, val |-> v]
UndefProp(k) ==
    [key |-> k, def |-> FALSE, val |-> IF k \in {"price", "countInStock"} THEN 0 ELSE ""]

\* Object.keys(updates)
ObjectKeys(updates) == [i \in 1..Len(updates.entries) |-> updates.entries[i].key]

\* updates.f !== undefined
Defined(updates, f) ==
    \E i \in 1..Len(updates.entries) :
        updates.entries[i].key = f /\ updates.entries[i].def

\* updates.f, for a defined f
Field(updates, f) ==
    updates.entries[CHOOSE i \in 1..Len(updates.entries) : updates.entries[i].key = f].val

\* The product documents of the backend at the start.
Product(id, name, stock) ==
    [id |-> id, name |-> name, price |-> 10, description |-> "d-" \o id,
     image |-> "i-" \o id, brand |-> "b-" \o id, category |-> "Electronics",
     countInStock |-> stock, rating |-> 4, numReviews |-> 0, reviews |-> <<>>]

----------------------------------------------------------------------------
(* The backend (REST API, section 6 of the specification) *)

\* GET /api/products/:id
ServerGet(srv, id) ==
    IF id \in DOMAIN srv
    THEN [ok |-> TRUE,  status |-> 200, body |-> srv[id]]
    ELSE [ok |-> FALSE, status |-> 404, body |-> Null]

\* PUT /api/products/:id : full-object replace of the writable fields
ServerPut(srv, id, data) ==
    IF id \in DOMAIN srv
    THEN [srv EXCEPT ![id] =
            [@ EXCEPT !.name = data.name, !.price = data.price,
                      !.description = data.description, !.image = data.image,
                      !.brand = data.brand, !.category = data.category,
                      !.countInStock = data.countInStock]]
    ELSE srv

\* What a fetch can come to: the promise rejects (network failure), the
\* server fails (500), or the request is served (200, or 404 for an
\* identifier the store does not hold).
Outcomes == {"reject", "status500", "served"}

Response(o, served) ==
    CASE o = "served"    -> served
      [] o = "status500" -> [ok |-> FALSE, status |-> 500, body |-> Null]
      [] OTHER           -> [ok |-> FALSE, status |-> 0,   body |-> Null]

\* One fetch in the log.
Fetch(p, item, method, id, body, o, resp) ==
    [proc |-> p, item |-> item, method |-> method, id |-> id, body |-> body,
     outcome |-> o, ok |-> (o # "reject" /\ resp.ok), response |-> resp.body]

\* fetch(`/api/products/${productId}`, { method: 'PUT', ... }): the product
\* the write goes to
updateUrlOfAnother(productId) == "p2"

updateUrl(productId) == productId

----------------------------------------------------------------------------
(* Errors thrown inside a tool function: new Error(message) *)

Error(kind) == [kind |-> kind, status |-> 0, fields |-> <<>>]
StatusError(kind, status) == [kind |-> kind, status |-> status, fields |-> <<>>]
NoError == Error("none")

----------------------------------------------------------------------------
(* What a call gives back: every tool function is 'async (...) => { try {  *)
(* ... } catch (error) { return <failure envelope> } }'.                   *)

Returned(envelope) == [kind |-> "returned", value |-> envelope]
Threw(error) == [kind |-> "threw", value |-> [success |-> FALSE, error |-> error]]
NotReturned == [kind |-> "pending", value |-> Null]

\* 'x || null' for an identifier argument: "" stands for a missing one.
OrNull(x) == IF x = "" THEN "null" ELSE x

NoCall ==
    [fn |-> "none", productId |-> "", updates |-> NoUpdates,
     productIds |-> [isArray |-> FALSE, ids |-> <<>>],
     newStockLevel |-> [def |-> FALSE, val |-> 0], operation |-> "",
     args |-> Null]

NoLocals ==
    [currentProduct |-> Null, updateData |-> Null, i |-> 0, results |-> <<>>,
     successCount |-> 0, failureCount |-> 0]

----------------------------------------------------------------------------
(* adminProductService: pieces shared by the three mutations *)

\* const invalidFields = Object.keys(updates).filter(f => !allowedFields.includes(f))
invalidFields(updates) ==
    SelectSeq(ObjectKeys(updates), LAMBDA f : f \notin SeqToSet(allowedFields))

\* updates.f !== undefined ? updates.f : currentProduct.f
MergedFieldCopyPaste(updates, currentProduct, f) ==
    IF f = "brand"
    THEN (IF Defined(updates, "name") THEN Field(updates, "name") ELSE currentProduct[f])
    ELSE (IF Defined(updates, f) THEN Field(updates, f) ELSE currentProduct[f])

MergedField(updates, currentProduct, f) ==
    IF Defined(updates, f) THEN Field(updates, f) ELSE currentProduct[f]

\* const updateData = { productId, name: ..., ..., countInStock: ... }
updateDataOfUpdatesOnly(productId, updates, currentProduct) ==
    [productId    |-> productId,
     name         |-> IF Defined(updates, "name") THEN Field(updates, "name") ELSE "",
     price        |-> IF Defined(updates, "price") THEN Field(updates, "price") ELSE 0,
     description  |-> IF Defined(updates, "description")
                      THEN Field(updates, "description") ELSE "",
     image        |-> IF Defined(updates, "image") THEN Field(updates, "image") ELSE "",
     brand        |-> IF Defined(updates, "brand") THEN Field(updates, "brand") ELSE "",
     category     |-> IF Defined(updates, "category") THEN Field(updates, "category") ELSE "",
     countInStock |-> IF Defined(updates, "countInStock")
                      THEN Field(updates, "countInStock") ELSE 0]

updateData(productId, updates, currentProduct) ==
    [productId    |-> productId,
     name         |-> MergedField(updates, currentProduct, "name"),
     price        |-> MergedField(updates, currentProduct, "price"),
     description  |-> MergedField(updates, currentProduct, "description"),
     image        |-> MergedField(updates, currentProduct, "image"),
     brand        |-> MergedField(updates, currentProduct, "brand"),
     category     |-> MergedField(updates, currentProduct, "category"),
     countInStock |-> MergedField(updates, currentProduct, "countInStock")]

\* store.dispatch({type: 'api/invalidateTags', ...}) inside try/catch: the
\* dispatch is made whether or not it then throws, and a throw is swallowed.
DispatchOutcomes == {"dispatched", "throws"}

\* One dispatch of the invalidation by caller p: how it came out, and the
\* number of fetches that had come back when it was made.
Dispatch(p, d, fetches) == [proc |-> p, outcome |-> d, after |-> fetches]

\* What the function goes on to after the dispatch: its result, the catch
\* around the dispatch having swallowed a throw.
invalidateTagsUnguarded(d, result, caught) == IF d = "throws" THEN caught ELSE result

invalidateTags(d, result, caught) == result

----------------------------------------------------------------------------
(* updateProductDetails({ productId, updates }) *)

\* oldValue !== newValue, for one property of updates
ChangedAlways(currentProduct, e) == TRUE

Changed(currentProduct, e) ==
    ~e.def \/ currentProduct[e.key] # e.val

\* for (const [field, newValue] of Object.entries(updates)) { ... changes.push(...) }
changes(updates, currentProduct) ==
    LET differing == SelectSeq(updates.entries, LAMBDA e : Changed(currentProduct, e))
    IN  [i \in 1..Len(differing) |->
            [field    |-> differing[i].key,
             oldValue |-> currentProduct[differing[i].key],
             newValue |-> IF differing[i].def THEN differing[i].val ELSE Null,
             changed  |-> TRUE]]

DetailsSuccess(productId, updates, currentProduct, updatedProduct) ==
    [success         |-> TRUE,
     productId       |-> productId,
     productName     |-> updatedProduct.name,
     updatedProduct  |-> updatedProduct,
     previousProduct |-> currentProduct,
     changes         |-> changes(updates, currentProduct),
     fieldsUpdated   |-> ObjectKeys(updates),
     error           |-> NoError]

DetailsFailure(productId, error) ==
    [success         |-> FALSE,
     productId       |-> OrNull(productId),
     productName     |-> Null,
     updatedProduct  |-> Null,
     previousProduct |-> Null,
     changes         |-> <<>>,
     fieldsUpdated   |-> <<>>,
     error           |-> error]

\* } catch (error) { return { success: false, ... } }
updateProductDetails_rethrow(productId, error) == Threw(error)

updateProductDetails_catch(productId, error) ==
    Returned(DetailsFailure(productId, error))

\* The checks before the first await.
updateProductDetails_validate(productId, updates) ==
    IF productId = "" THEN Error("Product ID is required")
    ELSE IF ~updates.present \/ Len(ObjectKeys(updates)) = 0
         THEN Error("At least one field to update is required")
         ELSE NoError

\* The call, up to 'await fetch(`/api/products/${productId}`)'.
updateProductDetails(p, productId, updates) ==
    /\ pc[p] = "idle"
    /\ call' = [call EXCEPT ![p] =
                    [NoCall EXCEPT !.fn = "updateProductDetails",
                                   !.productId = productId, !.updates = updates]]
    /\ LET error == updateProductDetails_validate(productId, updates)
       IN  IF error # NoError
           THEN /\ ret' = [ret EXCEPT ![p] = updateProductDetails_catch(productId, error)]
                /\ pc' = [pc EXCEPT ![p] = "done"]
           ELSE /\ pc' = [pc EXCEPT ![p] = "get"]
                /\ UNCHANGED ret
    /\ UNCHANGED <<server, loc, net, invalidations, cart, dispatched, view>>

\* The GET comes back: merge, allow-list check, then 'await fetch(..., PUT)'.
updateProductDetails_get(p, o) ==
    /\ pc[p] = "get"
    /\ call[p].fn = "updateProductDetails"
    /\ LET productId == call[p].productId
           updates   == call[p].updates
           resp      == Response(o, ServerGet(server, productId))
           invalid   == invalidFields(updates)
           fail(error) ==
               /\ ret' = [ret EXCEPT ![p] = updateProductDetails_catch(productId, error)]
               /\ pc' = [pc EXCEPT ![p] = "done"]
               /\ UNCHANGED loc
       IN  /\ net' = Append(net, Fetch(p, 1, "GET", productId, Null, o, resp))
           /\ IF o = "reject" THEN fail(Error("Failed to fetch"))
              ELSE IF ~resp.ok
                   THEN fail(StatusError("Product not found with status", resp.status))
              ELSE IF Len(invalid) > 0
                   THEN fail([kind |-> "Invalid fields", status |-> 0, fields |-> invalid])
              ELSE /\ loc' = [loc EXCEPT ![p] =
                                [NoLocals EXCEPT
                                    !.currentProduct = resp.body,
                                    !.updateData = updateData(productId, updates, resp.body)]]
                   /\ pc' = [pc EXCEPT ![p] = "put"]
                   /\ UNCHANGED ret
    /\ UNCHANGED <<server, call, invalidations, cart, dispatched, view>>

\* The PUT comes back: invalidate the cache, build the change summary, return.
updateProductDetails_put(p, o, d) ==
    /\ pc[p] = "put"
    /\ call[p].fn = "updateProductDetails"
    /\ LET productId == call[p].productId
           after     == IF o = "served"
                        THEN ServerPut(server, updateUrl(productId), loc[p].updateData)
                        ELSE server
           resp      == Response(o, ServerGet(after, updateUrl(productId)))
       IN  /\ server' = after
           /\ net' = Append(net, Fetch(p, 1, "PUT", updateUrl(productId),
                                       loc[p].updateData, o, resp))
           /\ pc' = [pc EXCEPT ![p] = "done"]
           /\ IF o = "reject"
              THEN /\ ret' = [ret EXCEPT ![p] =
                                updateProductDetails_catch(productId, Error("Failed to fetch"))]
                   /\ UNCHANGED invalidations
              ELSE IF ~resp.ok
              THEN /\ ret' = [ret EXCEPT ![p] =
                                updateProductDetails_catch(productId,
                                    StatusError("Failed to update product with status", resp.status))]
                   /\ UNCHANGED invalidations
              ELSE /\ invalidations' = Append(invalidations, Dispatch(p, d, Len(net) + 1))
                   /\ ret' = [ret EXCEPT ![p] =
                                invalidateTags(d,
                                    Returned(DetailsSuccess(productId, call[p].updates,
                                                            loc[p].currentProduct, resp.body)),
                                    updateProductDetails_catch(productId,
                                                               Error("dispatch failed")))]
    /\ UNCHANGED <<call, loc, cart, dispatched, view>>

----------------------------------------------------------------------------
(* updateProductStock({ productId, newStockLevel, operation }) *)

\* if (operation === 'add') ... else if (operation === 'subtract') ... else ...
finalStockLevelUnclamped(operation, oldStockLevel, newStockLevel) ==
    CASE operation = "add"      -> oldStockLevel + newStockLevel
      [] operation = "subtract" -> oldStockLevel - newStockLevel
      [] OTHER                  -> newStockLevel

finalStockLevelAddOtherwise(operation, oldStockLevel, newStockLevel) ==
    CASE operation = "set"      -> newStockLevel
      [] operation = "subtract" -> IF oldStockLevel - newStockLevel > 0
                                   THEN oldStockLevel - newStockLevel ELSE 0
      [] OTHER                  -> oldStockLevel + newStockLevel

finalStockLevel(operation, oldStockLevel, newStockLevel) ==
    CASE operation = "add"      -> oldStockLevel + newStockLevel
      [] operation = "subtract" -> IF oldStockLevel - newStockLevel > 0
                                   THEN oldStockLevel - newStockLevel ELSE 0
      [] OTHER                  -> newStockLevel

\* const updateData = { productId, name: currentProduct.name, ..., countInStock: finalStockLevel }
stockUpdateData(productId, currentProduct, final) ==
    [productId    |-> productId,
     name         |-> currentProduct.name,
     price        |-> currentProduct.price,
     description  |-> currentProduct.description,
     image        |-> currentProduct.image,
     brand        |-> currentProduct.brand,
     category     |-> currentProduct.category,
     countInStock |-> final]

StockSuccess(productId, operation, oldStockLevel, final, updatedProduct) ==
    [success        |-> TRUE,
     productId      |-> productId,
     productName    |-> updatedProduct.name,
     oldStockLevel  |-> oldStockLevel,
     newStockLevel  |-> final,
     operation      |-> operation,
     stockChange    |-> final - oldStockLevel,
     updatedProduct |-> updatedProduct,
     error          |-> NoError]

StockFailure(productId, operation, error) ==
    [success        |-> FALSE,
     productId      |-> OrNull(productId),
     productName    |-> Null,
     oldStockLevel  |-> 0,
     newStockLevel  |-> 0,
     operation      |-> OrNull(operation),
     stockChange    |-> 0,
     updatedProduct |-> Null,
     error          |-> error]

\* } catch (error) { return { success: false, ... } }
updateProductStock_catch(productId, operation, error) ==
    Returned(StockFailure(productId, operation, error))

\* The checks before the first await.
updateProductStock_validate(productId, newStockLevel) ==
    IF productId = "" THEN Error("Product ID is required")
    ELSE IF ~newStockLevel.def \/ newStockLevel.val < 0
         THEN Error("Valid stock level is required")
         ELSE NoError

updateProductStock(p, productId, newStockLevel, operation) ==
    /\ pc[p] = "idle"
    /\ call' = [call EXCEPT ![p] =
                    [NoCall EXCEPT !.fn = "updateProductStock",
                                   !.productId = productId,
                                   !.newStockLevel = newStockLevel,
                                   !.operation = operation]]
    /\ LET error == updateProductStock_validate(productId, newStockLevel)
       IN  IF error # NoError
           THEN /\ ret' = [ret EXCEPT ![p] =
                             updateProductStock_catch(productId, operation, error)]
                /\ pc' = [pc EXCEPT ![p] = "done"]
           ELSE /\ pc' = [pc EXCEPT ![p] = "get"]
                /\ UNCHANGED ret
    /\ UNCHANGED <<server, loc, net, invalidations, cart, dispatched, view>>

updateProductStock_get(p, o) ==
    /\ pc[p] = "get"
    /\ call[p].fn = "updateProductStock"
    /\ LET productId == call[p].productId
           operation == call[p].operation
           resp      == Response(o, ServerGet(server, productId))
           fail(error) ==
               /\ ret' = [ret EXCEPT ![p] =
                            updateProductStock_catch(productId, operation, error)]
               /\ pc' = [pc EXCEPT ![p] = "done"]
               /\ UNCHANGED loc
       IN  /\ net' = Append(net, Fetch(p, 1, "GET", productId, Null, o, resp))
           /\ IF o = "reject" THEN fail(Error("Failed to fetch"))
              ELSE IF ~resp.ok
                   THEN fail(StatusError("Product not found with status", resp.status))
              ELSE LET final == finalStockLevel(operation, resp.body.countInStock,
                                                call[p].newStockLevel.val)
                   IN  /\ loc' = [loc EXCEPT ![p] =
                                    [NoLocals EXCEPT
                                        !.currentProduct = resp.body,
                                        !.updateData =
                                            stockUpdateData(productId, resp.body, final)]]
                       /\ pc' = [pc EXCEPT ![p] = "put"]
                       /\ UNCHANGED ret
    /\ UNCHANGED <<server, call, invalidations, cart, dispatched, view>>

updateProductStock_put(p, o, d) ==
    /\ pc[p] = "put"
    /\ call[p].fn = "updateProductStock"
    /\ LET productId == call[p].productId
           operation == call[p].operation
           after     == IF o = "served"
                        THEN ServerPut(server, updateUrl(productId), loc[p].updateData)
                        ELSE server
           resp      == Response(o, ServerGet(after, updateUrl(productId)))
       IN  /\ server' = after
           /\ net' = Append(net, Fetch(p, 1, "PUT", updateUrl(productId),
                                       loc[p].updateData, o, resp))
           /\ pc' = [pc EXCEPT ![p] = "done"]
           /\ IF o = "reject"
              THEN /\ ret' = [ret EXCEPT ![p] =
                                updateProductStock_catch(productId, operation,
                                                         Error("Failed to fetch"))]
                   /\ UNCHANGED invalidations
              ELSE IF ~resp.ok
              THEN /\ ret' = [ret EXCEPT ![p] =
                                updateProductStock_catch(productId, operation,
                                    StatusError("Failed to update stock with status", resp.status))]
                   /\ UNCHANGED invalidations
              ELSE /\ invalidations' = Append(invalidations, Dispatch(p, d, Len(net) + 1))
                   /\ ret' = [ret EXCEPT ![p] =
                                invalidateTags(d,
                                    Returned(StockSuccess(productId, operation,
                                                loc[p].currentProduct.countInStock,
                                                loc[p].updateData.countInStock, resp.body)),
                                    updateProductStock_catch(productId, operation,
                                                             Error("dispatch failed")))]
    /\ UNCHANGED <<call, loc, cart, dispatched, view>>

----------------------------------------------------------------------------
(* bulkUpdateProducts({ productIds, updates }) *)

\* The checks before the loop.
bulkUpdateProducts_validate(productIds, updates) ==
    IF ~productIds.isArray \/ Len(productIds.ids) = 0
    THEN Error("Product IDs array is required")
    ELSE IF ~updates.present \/ Len(ObjectKeys(updates)) = 0
    THEN Error("At least one field to update is required")
    ELSE IF Len(invalidFields(updates)) > 0
    THEN [kind |-> "Invalid fields", status |-> 0, fields |-> invalidFields(updates)]
    ELSE NoError

\* results.push({ productId, success: false, message }); failureCount++
itemFailedUncounted(l, productId, error) ==
    [l EXCEPT !.results = Append(@, [productId |-> productId, success |-> FALSE,
                                     productName |-> "", error |-> error])]

itemFailed(l, productId, error) ==
    [l EXCEPT !.results = Append(@, [productId |-> productId, success |-> FALSE,
                                     productName |-> "", error |-> error]),
              !.failureCount = @ + 1]

\* results.push({ productId, success: true, productName, message }); successCount++
itemSucceeded(l, productId, updatedProduct) ==
    [l EXCEPT !.results = Append(@, [productId |-> productId, success |-> TRUE,
                                     productName |-> updatedProduct.name,
                                     error |-> NoError]),
              !.successCount = @ + 1]

\* success: successCount > 0
bulkSuccessAllOk(successCount, failureCount) == failureCount = 0

bulkSuccess(successCount, failureCount) == successCount > 0

BulkDone(productIds, updates, l) ==
    [success        |-> bulkSuccess(l.successCount, l.failureCount),
     productIds     |-> productIds.ids,
     updates        |-> updates,
     results        |-> l.results,
     successCount   |-> l.successCount,
     failureCount   |-> l.failureCount,
     totalProcessed |-> Len(productIds.ids),
     fieldsUpdated  |-> ObjectKeys(updates),
     error          |-> NoError]

BulkFailure(productIds, error) ==
    [success        |-> FALSE,
     productIds     |-> productIds.ids,
     updates        |-> Obj(<<>>),
     results        |-> <<>>,
     successCount   |-> 0,
     failureCount   |-> 0,
     totalProcessed |-> 0,
     fieldsUpdated  |-> <<>>,
     error          |-> error]

\* outer } catch (error) { return { success: false, ... } }
bulkUpdateProducts_catch(productIds, error) ==
    Returned(BulkFailure(productIds, error))

\* The call, up to the first 'await fetch' of the loop.
bulkUpdateProducts(p, productIds, updates) ==
    /\ pc[p] = "idle"
    /\ call' = [call EXCEPT ![p] =
                    [NoCall EXCEPT !.fn = "bulkUpdateProducts",
                                   !.productIds = productIds, !.updates = updates]]
    /\ LET error == bulkUpdateProducts_validate(productIds, updates)
       IN  IF error # NoError
           THEN /\ ret' = [ret EXCEPT ![p] = bulkUpdateProducts_catch(productIds, error)]
                /\ pc' = [pc EXCEPT ![p] = "done"]
                /\ UNCHANGED loc
           ELSE /\ pc' = [pc EXCEPT ![p] = "get"]
                /\ loc' = [loc EXCEPT ![p] = [NoLocals EXCEPT !.i = 1]]
                /\ UNCHANGED ret
    /\ UNCHANGED <<server, net, invalidations, cart, dispatched, view>>

\* The end of one iteration, with the locals l it leaves: the next
\* identifier's GET, or after the last one the cache invalidation and return.
bulkUpdateProducts_break(p, l, d) ==
    IF l.i < Len(call[p].productIds.ids) /\ l.results[Len(l.results)].success
    THEN /\ loc' = [loc EXCEPT ![p] =
                      [l EXCEPT !.i = @ + 1, !.currentProduct = Null, !.updateData = Null]]
         /\ pc' = [pc EXCEPT ![p] = "get"]
         /\ d = "dispatched"
         /\ UNCHANGED <<ret, invalidations>>
    ELSE /\ loc' = [loc EXCEPT ![p] = l]
         /\ pc' = [pc EXCEPT ![p] = "done"]
         /\ invalidations' = Append(invalidations, Dispatch(p, d, Len(net) + 1))
         /\ ret' = [ret EXCEPT ![p] =
                      Returned(BulkDone(call[p].productIds, call[p].updates, l))]

bulkUpdateProducts_continue(p, l, d) ==
    IF l.i < Len(call[p].productIds.ids)
    THEN /\ loc' = [loc EXCEPT ![p] =
                      [l EXCEPT !.i = @ + 1, !.currentProduct = Null, !.updateData = Null]]
         /\ pc' = [pc EXCEPT ![p] = "get"]
         /\ d = "dispatched"
         /\ UNCHANGED <<ret, invalidations>>
    ELSE /\ loc' = [loc EXCEPT ![p] = l]
         /\ pc' = [pc EXCEPT ![p] = "done"]
         /\ invalidations' = Append(invalidations, Dispatch(p, d, Len(net) + 1))
         /\ ret' = [ret EXCEPT ![p] =
                      invalidateTags(d,
                          Returned(BulkDone(call[p].productIds, call[p].updates, l)),
                          bulkUpdateProducts_catch(call[p].productIds,
                                                   Error("dispatch failed")))]

\* The GET of identifier i comes back.
bulkUpdateProducts_get(p, o, d) ==
    /\ pc[p] = "get"
    /\ call[p].fn = "bulkUpdateProducts"
    /\ LET productId == call[p].productIds.ids[loc[p].i]
           resp      == Response(o, ServerGet(server, productId))
       IN  /\ net' = Append(net, Fetch(p, loc[p].i, "GET", productId, Null, o, resp))
           /\ IF o = "reject"
              THEN bulkUpdateProducts_continue(p,
                       itemFailed(loc[p], productId, Error("Failed to fetch")), d)
              ELSE IF ~resp.ok
              THEN bulkUpdateProducts_continue(p,
                       itemFailed(loc[p], productId,
                                  StatusError("Product not found - Status", resp.status)), d)
              ELSE /\ loc' = [loc EXCEPT ![p] =
                                [@ EXCEPT !.currentProduct = resp.body,
                                          !.updateData =
                                              updateData(productId, call[p].updates, resp.body)]]
                   /\ pc' = [pc EXCEPT ![p] = "put"]
                   /\ d = "dispatched"
                   /\ UNCHANGED <<ret, invalidations>>
    /\ UNCHANGED <<server, call, cart, dispatched, view>>

\* The PUT of identifier i comes back.
bulkUpdateProducts_put(p, o, d) ==
    /\ pc[p] = "put"
    /\ call[p].fn = "bulkUpdateProducts"
    /\ LET productId == call[p].productIds.ids[loc[p].i]
           after     == IF o = "served"
                        THEN ServerPut(server, updateUrl(productId), loc[p].updateData)
                        ELSE server
           resp      == Response(o, ServerGet(after, updateUrl(productId)))
       IN  /\ server' = after
           /\ net' = Append(net, Fetch(p, loc[p].i, "PUT", updateUrl(productId),
                                       loc[p].updateData, o, resp))
           /\ IF o = "reject"
              THEN bulkUpdateProducts_continue(p,
                       itemFailed(loc[p], productId, Error("Failed to fetch")), d)
              ELSE IF resp.ok
              THEN bulkUpdateProducts_continue(p,
                       itemSucceeded(loc[p], productId, resp.body), d)
              ELSE bulkUpdateProducts_continue(p,
                       itemFailed(loc[p], productId,
                                  StatusError("Failed to update product - Status", resp.status)), d)
    /\ UNCHANGED <<call, cart, dispatched, view>>

----------------------------------------------------------------------------
(* Pieces shared by the tools that only read the backend *)

\* An async tool function up to its first await: a failed argument check
\* throws into the function's own catch, otherwise the fetch is issued.
Enter(p, error, caught) ==
    /\ pc[p] = "idle"
    /\ IF error # NoError
       THEN /\ ret' = [ret EXCEPT ![p] = caught]
            /\ pc' = [pc EXCEPT ![p] = "done"]
       ELSE /\ pc' = [pc EXCEPT ![p] = "get"]
            /\ UNCHANGED ret
    /\ UNCHANGED <<server, loc, net, invalidations, cart, dispatched, view>>

\* The single fetch of such a function comes back and the function runs to
\* its return.
Resume(p, fn, fetched, result) ==
    /\ pc[p] = "get"
    /\ call[p].fn = fn
    /\ net' = Append(net, fetched)
    /\ ret' = [ret EXCEPT ![p] = result]
    /\ pc' = [pc EXCEPT ![p] = "done"]
    /\ UNCHANGED <<server, call, loc, invalidations>>

\* A call of a tool with its arguments.
Call(fn, productId, args) == [NoCall EXCEPT !.fn = fn, !.productId = productId, !.args = args]

\* An optional numeric argument: undefined, or a number.
Undefined == [def |-> FALSE, val |-> 0]
Num(n) == [def |-> TRUE, val |-> n]

RECURSIVE SumSeq(_)
SumSeq(s) == IF s = <<>> THEN 0 ELSE Head(s) + SumSeq(Tail(s))

\* String.prototype.toLowerCase, over the strings of the model
toLowerCase(s) ==
    CASE s = "Electronics" -> "electronics"
      [] s = "ELECTRONICS" -> "electronics"
      [] s = "Phones"      -> "phones"
      [] s = "Audio"       -> "audio"
      [] s = "Delivered"   -> "delivered"
      [] s = "PAID"        -> "paid"
      [] OTHER             -> s

\* Array.prototype.sort((a, b) => k(b) - k(a)), k the keys of s by index:
\* non-increasing in the key, elements of equal key in their order in s.
Rank(k, i) ==
    Cardinality({j \in 1..Len(k) : k[j] > k[i] \/ (k[j] = k[i] /\ j < i)}) + 1

SortedDescending(s, k) ==
    [r \in 1..Len(s) |-> s[CHOOSE i \in 1..Len(s) : Rank(k, i) = r]]

----------------------------------------------------------------------------
(* The cart slice of the Redux store (slices/cartSlice) *)

RECURSIVE itemsPrice(_)
itemsPrice(cartItems) ==
    IF cartItems = <<>> THEN 0
    ELSE Head(cartItems).price * Head(cartItems).qty + itemsPrice(Tail(cartItems))

\* The slice's state: the line items and the total computed from them (the
\* total is carried as the price of the items; shipping and tax are added
\* by the slice and are not modelled).
Cart(cartItems) == [cartItems |-> cartItems, totalPrice |-> itemsPrice(cartItems)]

\* cartItems.find((x) => x._id === id): the index of the line item, or 0
find(cartItems, id) ==
    IF \E i \in 1..Len(cartItems) : cartItems[i]._id = id
    THEN CHOOSE i \in 1..Len(cartItems) :
            cartItems[i]._id = id /\ \A j \in 1..(i - 1) : cartItems[j]._id # id
    ELSE 0

\* reducer addToCart: replace the line item of the same _id, or append
reduxAddToCart(state, item) ==
    IF find(state.cartItems, item._id) # 0
    THEN Cart([i \in 1..Len(state.cartItems) |->
                    IF state.cartItems[i]._id = item._id THEN item ELSE state.cartItems[i]])
    ELSE Cart(Append(state.cartItems, item))

\* reducer removeFromCart
removeFromCart(state, id) ==
    Cart(SelectSeq(state.cartItems, LAMBDA x : x._id # id))

\* reducer clearCartItems
clearCartItems(state) == Cart(<<>>)

\* store.dispatch(action) by caller p, as the store's log keeps it
Action(p, type) == [proc |-> p, type |-> type]

----------------------------------------------------------------------------
(* cartService: addToCart({ productId, quantity = 1, userId }) *)

\* quantity is carried as twice its value, so that 1.5 is 3.
Quantity(q) == IF q.def THEN q.val ELSE 2

\* Number.isInteger(quantity)
IsInteger(twice) == twice % 2 = 0

CartFailure(error) ==
    [success |-> FALSE, cart |-> Null, product |-> Null,
     cartItemsCount |-> 0, cartTotal |-> 0, error |-> error]

addToCart_catch(error) == Returned(CartFailure(error))

addToCart_validate(productId, twice) ==
    IF productId = "" THEN Error("Product ID is required")
    ELSE IF twice < 2 \/ ~IsInteger(twice)
         THEN Error("Quantity must be a positive integer")
         ELSE NoError

\* const cartItem = { ...product, _id, qty: existItem ? existItem.qty + quantity : quantity, userId }
cartItem(product, existItem, quantity, userId) ==
    [_id |-> product.id, name |-> product.name, price |-> product.price,
     countInStock |-> product.countInStock,
     qty |-> IF existItem # 0 THEN cart.cartItems[existItem].qty + quantity ELSE quantity,
     userId |-> OrNull(userId)]

addToCart(p, productId, quantity, userId) ==
    /\ call' = [call EXCEPT ![p] =
                  Call("addToCart", productId, [quantity |-> quantity, userId |-> userId])]
    /\ Enter(p, addToCart_validate(productId, Quantity(quantity)),
             addToCart_catch(addToCart_validate(productId, Quantity(quantity))))

\* Whether the call gets as far as store.dispatch(reduxAddToCart(cartItem)):
\* the response is OK and the stock check does not throw.
addToCart_dispatchesBeforeStockCheck(ok, product, twice) == ok

addToCart_dispatches(ok, product, twice) == ok /\ ~(2 * product.countInStock < twice)

\* The product comes back: stock check, then the dispatch and the result.
addToCart_get(p, o) ==
    LET productId == call[p].productId
        twice     == Quantity(call[p].args.quantity)
        resp      == Response(o, ServerGet(server, productId))
        product   == resp.body
        existItem == find(cart.cartItems, product.id)
        item      == cartItem(product, existItem, twice \div 2, call[p].args.userId)
        updatedCart == reduxAddToCart(cart, item)
        accepted  == addToCart_dispatches(o # "reject" /\ resp.ok, product, twice)
    IN  /\ Resume(p, "addToCart", Fetch(p, 1, "GET", productId, Null, o, resp),
                  IF o = "reject" THEN addToCart_catch(Error("Failed to fetch"))
                  ELSE IF ~resp.ok
                       THEN addToCart_catch(StatusError("Product not found with status", resp.status))
                  ELSE IF 2 * product.countInStock < twice
                       THEN addToCart_catch(StatusError("Insufficient stock", product.countInStock))
                  ELSE Returned([success |-> TRUE, cart |-> updatedCart, product |-> item,
                                 cartItemsCount |-> Len(updatedCart.cartItems),
                                 cartTotal |-> updatedCart.totalPrice, error |-> NoError]))
        /\ cart' = IF accepted THEN updatedCart ELSE cart
        /\ dispatched' = IF accepted THEN Append(dispatched, Action(p, "cart/addToCart"))
                         ELSE dispatched
        /\ UNCHANGED view

(* removeFromCartTool({ productId }) *)

RemoveFailure(error) ==
    [success |-> FALSE, cart |-> Null, cartItemsCount |-> 0, cartTotal |-> 0, error |-> error]

removeFromCartTool_catch(error) == Returned(RemoveFailure(error))

removeFromCartTool(p, productId) ==
    LET itemToRemove == find(cart.cartItems, productId)
        updatedCart  == removeFromCart(cart, productId)
    IN  /\ pc[p] = "idle"
        /\ call' = [call EXCEPT ![p] = Call("removeFromCartTool", productId, Null)]
        /\ pc' = [pc EXCEPT ![p] = "done"]
        /\ IF productId = ""
           THEN /\ ret' = [ret EXCEPT ![p] = removeFromCartTool_catch(Error("Product ID is required"))]
                /\ UNCHANGED <<cart, dispatched>>
           ELSE IF itemToRemove = 0
           THEN /\ ret' = [ret EXCEPT ![p] = removeFromCartTool_catch(Error("Item not found in cart"))]
                /\ UNCHANGED <<cart, dispatched>>
           ELSE /\ cart' = updatedCart
                /\ dispatched' = Append(dispatched, Action(p, "cart/removeFromCart"))
                /\ ret' = [ret EXCEPT ![p] =
                            Returned([success |-> TRUE, cart |-> updatedCart,
                                      cartItemsCount |-> Len(updatedCart.cartItems),
                                      cartTotal |-> updatedCart.totalPrice, error |-> NoError])]
        /\ UNCHANGED <<server, loc, net, invalidations, view>>

(* clearCartTool() *)

\* if (itemsCount === 0): nothing to clear, return without dispatching
alreadyEmptyUnchecked(itemsCount) == FALSE

alreadyEmpty(itemsCount) == itemsCount = 0

clearCartTool(p) ==
    LET itemsCount  == Len(cart.cartItems)
        updatedCart == clearCartItems(cart)
    IN  /\ pc[p] = "idle"
        /\ call' = [call EXCEPT ![p] = Call("clearCartTool", "", Null)]
        /\ pc' = [pc EXCEPT ![p] = "done"]
        /\ IF alreadyEmpty(itemsCount)
           THEN /\ ret' = [ret EXCEPT ![p] =
                            Returned([success |-> TRUE, cart |-> cart, cartItemsCount |-> 0,
                                      cartTotal |-> 0, message |-> "Cart is already empty",
                                      error |-> NoError])]
                /\ UNCHANGED <<cart, dispatched>>
           ELSE /\ cart' = updatedCart
                /\ dispatched' = Append(dispatched, Action(p, "cart/clearCartItems"))
                /\ ret' = [ret EXCEPT ![p] =
                            Returned([success |-> TRUE, cart |-> updatedCart, cartItemsCount |-> 0,
                                      cartTotal |-> 0, message |-> "Successfully cleared",
                                      error |-> NoError])]
        /\ UNCHANGED <<server, loc, net, invalidations, view>>

----------------------------------------------------------------------------
(* reviewSummaryService: generateReviewSummary, getProsAndCons,            *)
(* askAboutReviews                                                         *)

\* product.reviews.map(review => ({ rating, comment, userName: review.name || 'Anonymous', ... }))
structuredReviews(product) ==
    [i \in 1..Len(product.reviews) |->
        [rating   |-> product.reviews[i].rating,
         comment  |-> product.reviews[i].comment,
         userName |-> IF product.reviews[i].name = "" THEN "Anonymous"
                      ELSE product.reviews[i].name]]

\* The success envelope of the three review tools: with or without reviews.
ReviewsSuccess(productId, product, question) ==
    [success       |-> TRUE,
     productId     |-> productId,
     productName   |-> product.name,
     reviews       |-> structuredReviews(product),
     reviewCount   |-> Len(product.reviews),
     averageRating |-> product.rating,
     question      |-> OrNull(question),
     error         |-> NoError]

ReviewsFailure(productId, question, error) ==
    [success       |-> FALSE,
     productId     |-> OrNull(productId),
     productName   |-> Null,
     reviews       |-> <<>>,
     reviewCount   |-> 0,
     averageRating |-> 0,
     question      |-> OrNull(question),
     error         |-> error]

\* What the function makes of its fetch of the product.
ReviewsOf(productId, question, o, resp, caught(_)) ==
    IF o = "reject" THEN caught(Error("Failed to fetch"))
    ELSE IF ~resp.ok THEN caught(StatusError("Product not found with status", resp.status))
    ELSE Returned(ReviewsSuccess(productId, resp.body, question))

generateReviewSummary_catch(productId, question, error) ==
    Returned(ReviewsFailure(productId, question, error))

generateReviewSummary_validate(productId) ==
    IF productId = "" THEN Error("Product ID is required") ELSE NoError

generateReviewSummary(p, productId, question) ==
    /\ call' = [call EXCEPT ![p] =
                  Call("generateReviewSummary", productId, [question |-> question])]
    /\ Enter(p, generateReviewSummary_validate(productId),
             generateReviewSummary_catch(productId, question,
                                         generateReviewSummary_validate(productId)))

generateReviewSummary_get(p, o) ==
    LET productId == call[p].productId
        question  == call[p].args.question
        resp      == Response(o, ServerGet(server, productId))
    IN  /\ Resume(p, "generateReviewSummary", Fetch(p, 1, "GET", productId, Null, o, resp),
                  ReviewsOf(productId, question, o, resp,
                            LAMBDA e : generateReviewSummary_catch(productId, question, e)))
        /\ UNCHANGED <<cart, dispatched, view>>

getProsAndCons_catch(productId, error) ==
    Returned(ReviewsFailure(productId, "", error))

getProsAndCons_validate(productId) ==
    IF productId = "" THEN Error("Product ID is required") ELSE NoError

getProsAndCons(p, productId) ==
    /\ call' = [call EXCEPT ![p] = Call("getProsAndCons", productId, Null)]
    /\ Enter(p, getProsAndCons_validate(productId),
             getProsAndCons_catch(productId, getProsAndCons_validate(productId)))

getProsAndCons_get(p, o) ==
    LET productId == call[p].productId
        resp      == Response(o, ServerGet(server, productId))
    IN  /\ Resume(p, "getProsAndCons", Fetch(p, 1, "GET", productId, Null, o, resp),
                  ReviewsOf(productId, "", o, resp,
                            LAMBDA e : getProsAndCons_catch(productId, e)))
        /\ UNCHANGED <<cart, dispatched, view>>

askAboutReviews_catch(productId, question, error) ==
    Returned(ReviewsFailure(productId, question, error))

askAboutReviews_validate(productId, question) ==
    IF productId = "" THEN Error("Product ID is required")
    ELSE IF question = "" THEN Error("Question is required")
    ELSE NoError

askAboutReviews(p, productId, question) ==
    /\ call' = [call EXCEPT ![p] =
                  Call("askAboutReviews", productId, [question |-> question])]
    /\ Enter(p, askAboutReviews_validate(productId, question),
             askAboutReviews_catch(productId, question,
                                   askAboutReviews_validate(productId, question)))

askAboutReviews_get(p, o) ==
    LET productId == call[p].productId
        question  == call[p].args.question
        resp      == Response(o, ServerGet(server, productId))
    IN  /\ Resume(p, "askAboutReviews", Fetch(p, 1, "GET", productId, Null, o, resp),
                  ReviewsOf(productId, question, o, resp,
                            LAMBDA e : askAboutReviews_catch(productId, question, e)))
        /\ UNCHANGED <<cart, dispatched, view>>

----------------------------------------------------------------------------
(* The orders the backend serves.  An order's createdAt is carried         *)
(* relative to the invocation time: age is its age in days, monthsAgo the  *)
(* number of calendar months between its month and the current one.        *)

Item(name, qty, price) == [name |-> name, qty |-> qty, price |-> price]

Order(id, age, monthsAgo, totalPrice, isPaid, isDelivered, orderItems) ==
    [id |-> id, age |-> age, monthsAgo |-> monthsAgo, totalPrice |-> totalPrice,
     isPaid |-> isPaid, isDelivered |-> isDelivered, orderItems |-> orderItems]

OrderLists ==
    {<<>>,
     <<Order("o1", 7, 0, 20, TRUE, TRUE, <<Item("Airpods", 2, 10)>>),
       Order("o2", 8, 0, 30, TRUE, FALSE, <<Item("iPhone", 1, 30)>>),
       Order("o3", 40, 1, 50, FALSE, FALSE, <<Item("Camera", 1, 20), Item("iPhone", 1, 30)>>)>>,
     <<Order("o1", 100, 3, 0, FALSE, TRUE, <<>>),
       Order("o2", 400, 13, 10, FALSE, FALSE, <<Item("Airpods", 1, 10)>>)>>,
     <<Order("o1", 5, 0, 9, TRUE, FALSE,
             <<Item("Mouse", 1, 1), Item("Keyboard", 3, 1), Item("Monitor", 2, 1),
               Item("Cable", 2, 1), Item("Mouse", 1, 1)>>),
       Order("o2", 50, 2, 5, TRUE, TRUE,
             <<Item("Dock", 1, 1), Item("Lamp", 2, 1), Item("Cable", 1, 1),
               Item("Stand", 1, 1)>>)>>}

\* GET /api/orders/mine and GET /api/orders
ServerOrders(orders) == [ok |-> TRUE, status |-> 200, body |-> orders]

\* GET /api/orders/:id
ServerOrder(orders, orderId) ==
    IF \E i \in 1..Len(orders) : orders[i].id = orderId
    THEN [ok |-> TRUE, status |-> 200,
          body |-> orders[CHOOSE i \in 1..Len(orders) : orders[i].id = orderId]]
    ELSE [ok |-> FALSE, status |-> 404, body |-> Null]

----------------------------------------------------------------------------
(* reviewSummaryService: getOrderHistory({ days, startDate, endDate, status }) *)

\* order.isDelivered ? 'delivered' : order.isPaid ? 'paid' : 'pending'
orderStatusPaidFirst(order) ==
    IF order.isPaid THEN "paid"
    ELSE IF order.isDelivered THEN "delivered" ELSE "pending"

orderStatus(order) ==
    IF order.isDelivered THEN "delivered"
    ELSE IF order.isPaid THEN "paid" ELSE "pending"

\* The date filter: days, startDate and endDate are each applied when given.
\* A date argument is carried as the age in days of that date.
inDatesExclusive(order, days, startDate, endDate) ==
    /\ ~(days.def /\ days.val # 0 /\ order.age >= days.val)
    /\ ~(startDate.def /\ order.age > startDate.val)
    /\ ~(endDate.def /\ order.age < endDate.val)

inDates(order, days, startDate, endDate) ==
    /\ ~(days.def /\ days.val # 0 /\ order.age > days.val)
    /\ ~(startDate.def /\ order.age > startDate.val)
    /\ ~(endDate.def /\ order.age < endDate.val)

filteredOrders(orders, days, startDate, endDate, status) ==
    LET dated == IF (days.def /\ days.val # 0) \/ startDate.def \/ endDate.def
                 THEN SelectSeq(orders, LAMBDA order : inDates(order, days, startDate, endDate))
                 ELSE orders
    IN  IF status # ""
        THEN SelectSeq(dated, LAMBDA order :
                                toLowerCase(orderStatus(order)) = toLowerCase(status))
        ELSE dated

totalSpent(orders) == SumSeq([i \in 1..Len(orders) |-> orders[i].totalPrice])

structuredOrders(orders) ==
    [i \in 1..Len(orders) |->
        [id          |-> orders[i].id,
         age         |-> orders[i].age,
         totalPrice  |-> orders[i].totalPrice,
         status      |-> orderStatus(orders[i]),
         isPaid      |-> orders[i].isPaid,
         isDelivered |-> orders[i].isDelivered,
         itemsCount  |-> Len(orders[i].orderItems)]]

\* totalOrders > 0 ? totalSpent / totalOrders : 0, as a fraction
Ratio(n, d) == [num |-> n, den |-> d]
average(spent, count) == IF count > 0 THEN Ratio(spent, count) ELSE Ratio(0, 1)

HistorySuccess(orders, filters) ==
    LET totalOrders == Len(orders)
        paidOrders  == Len(SelectSeq(orders, LAMBDA order : order.isPaid))
    IN  [success           |-> TRUE,
         orders            |-> structuredOrders(orders),
         totalOrders       |-> totalOrders,
         totalSpent        |-> totalSpent(orders),
         deliveredOrders   |-> Len(SelectSeq(orders, LAMBDA order : order.isDelivered)),
         paidOrders        |-> paidOrders,
         pendingOrders     |-> totalOrders - paidOrders,
         averageOrderValue |-> average(totalSpent(orders), totalOrders),
         filters           |-> filters,
         error             |-> NoError]

HistoryFailure(filters, error) ==
    [success           |-> FALSE,
     orders            |-> <<>>,
     totalOrders       |-> 0,
     totalSpent        |-> 0,
     deliveredOrders   |-> 0,
     paidOrders        |-> 0,
     pendingOrders     |-> 0,
     averageOrderValue |-> Ratio(0, 1),
     filters           |-> filters,
     error             |-> error]

getOrderHistory_catch(filters, error) == Returned(HistoryFailure(filters, error))

\* No argument check: the function goes straight to its fetch.
getOrderHistory(p, days, startDate, endDate, status) ==
    /\ call' = [call EXCEPT ![p] =
                  Call("getOrderHistory", "",
                  [days |-> days, startDate |-> startDate, endDate |-> endDate,
                  status |-> status])]
    /\ Enter(p, NoError, NotReturned)

\* getOrderHistory from its fetch on: what it resolves to.
getOrderHistory_resolve(f, o, resp) ==
    IF o = "reject" THEN getOrderHistory_catch(f, Error("Failed to fetch"))
    ELSE IF ~resp.ok
         THEN getOrderHistory_catch(f,
                  StatusError("Failed to fetch orders with status", resp.status))
    ELSE Returned(HistorySuccess(
              filteredOrders(resp.body, f.days, f.startDate, f.endDate, f.status), f))

getOrderHistory_get(p, o, orders) ==
    LET f    == call[p].args
        resp == Response(o, ServerOrders(orders))
    IN  /\ Resume(p, "getOrderHistory", Fetch(p, 1, "GET", "/api/orders/mine", Null, o, resp),
                  getOrderHistory_resolve(f, o, resp))
        /\ UNCHANGED <<cart, dispatched, view>>

----------------------------------------------------------------------------
(* getOrderDetails({ orderId }) *)

DetailsOfOrderFailure(error) == [success |-> FALSE, order |-> Null, error |-> error]

getOrderDetails_catch(error) == Returned(DetailsOfOrderFailure(error))

getOrderDetails_validate(orderId) ==
    IF orderId = "" THEN Error("Order ID is required") ELSE NoError

structuredOrder(order) ==
    [id          |-> order.id,
     totalPrice  |-> order.totalPrice,
     status      |-> orderStatus(order),
     isPaid      |-> order.isPaid,
     isDelivered |-> order.isDelivered,
     itemsCount  |-> Len(order.orderItems),
     items       |-> [i \in 1..Len(order.orderItems) |->
                        [name     |-> order.orderItems[i].name,
                         quantity |-> order.orderItems[i].qty,
                         price    |-> order.orderItems[i].price,
                         total    |-> order.orderItems[i].qty * order.orderItems[i].price]]]

getOrderDetails(p, orderId) ==
    /\ call' = [call EXCEPT ![p] =
                  Call("getOrderDetails", "", [orderId |-> orderId])]
    /\ Enter(p, getOrderDetails_validate(orderId),
             getOrderDetails_catch(getOrderDetails_validate(orderId)))

getOrderDetails_get(p, o, orders) ==
    LET orderId == call[p].args.orderId
        resp    == Response(o, ServerOrder(orders, orderId))
    IN  /\ Resume(p, "getOrderDetails", Fetch(p, 1, "GET", orderId, Null, o, resp),
                  IF o = "reject" THEN getOrderDetails_catch(Error("Failed to fetch"))
                  ELSE IF ~resp.ok
                       THEN getOrderDetails_catch(
                                StatusError("Order not found with status", resp.status))
                  ELSE Returned([success |-> TRUE, order |-> structuredOrder(resp.body),
                                 error |-> NoError]))
        /\ UNCHANGED <<cart, dispatched, view>>

----------------------------------------------------------------------------
(* getOrderStatistics({ period = 'all' }) *)

\* The cutoff of a period in days; 'all' and any other string have none.
periodDays(period) ==
    CASE period = "30days" -> 30
      [] period = "90days" -> 90
      [] period = "year"   -> 365
      [] OTHER             -> 0

inPeriod(orders, period) ==
    IF period \in {"30days", "90days", "year"}
    THEN SelectSeq(orders, LAMBDA order : order.age <= periodDays(period))
    ELSE orders

\* Every line item of the orders, in order.
RECURSIVE lineItems(_)
lineItems(orders) ==
    IF orders = <<>> THEN <<>> ELSE Head(orders).orderItems \o lineItems(Tail(orders))

\* productCounts: per product name, in the order the names are first met,
\* the sum of the quantities ordered.
productCounts(orders) ==
    LET items == lineItems(orders)
        first == SelectSeq([i \in 1..Len(items) |-> i],
                           LAMBDA i : \A j \in 1..(i - 1) : items[j].name # items[i].name)
    IN  [n \in 1..Len(first) |->
            [name     |-> items[first[n]].name,
             quantity |-> SumSeq([i \in 1..Len(items) |->
                                    IF items[i].name = items[first[n]].name
                                    THEN items[i].qty ELSE 0])]]

TopN == 5

\* Object.entries(productCounts).sort(([, a], [, b]) => b - a).slice(0, 5)
topProductsUnsorted(orders) ==
    LET counts == productCounts(orders)
    IN  SubSeq(counts, 1, IF Len(counts) < TopN THEN Len(counts) ELSE TopN)

topProducts(orders) ==
    LET counts == productCounts(orders)
        sorted == SortedDescending(counts, [i \in 1..Len(counts) |-> counts[i].quantity])
    IN  SubSeq(sorted, 1, IF Len(sorted) < TopN THEN Len(sorted) ELSE TopN)

Months == 6

\* for (let i = 5; i >= 0; i--) { ... monthlySpending.push({ month, spent, orders }) }
monthlySpendingOfOrders(orders) ==
    SelectSeq([k \in 1..Months |->
                  LET monthOrders == SelectSeq(orders, LAMBDA order : order.monthsAgo = Months - k)
                  IN  [monthsAgo |-> Months - k,
                       spent     |-> totalSpent(monthOrders),
                       orders    |-> Len(monthOrders)]],
              LAMBDA m : m.orders > 0)

monthlySpending(orders) ==
    [k \in 1..Months |->
        LET monthOrders == SelectSeq(orders, LAMBDA order : order.monthsAgo = Months - k)
        IN  [monthsAgo |-> Months - k,
             spent     |-> totalSpent(monthOrders),
             orders    |-> Len(monthOrders)]]

StatisticsSuccess(period, orders) ==
    LET totalOrders     == Len(orders)
        deliveredOrders == Len(SelectSeq(orders, LAMBDA order : order.isDelivered))
        paidOrders      == Len(SelectSeq(orders, LAMBDA order : order.isPaid))
    IN  [success         |-> TRUE,
         period          |-> period,
         statistics      |->
            [totalOrders       |-> totalOrders,
             totalSpent        |-> totalSpent(orders),
             averageOrderValue |-> average(totalSpent(orders), totalOrders),
             deliveredOrders   |-> deliveredOrders,
             paidOrders        |-> paidOrders,
             pendingOrders     |-> totalOrders - paidOrders,
             deliveryRate      |-> average(deliveredOrders * 100, totalOrders)],
         topProducts     |-> topProducts(orders),
         monthlySpending |-> monthlySpending(orders),
         error           |-> NoError]

StatisticsFailure(period, error) ==
    [success         |-> FALSE,
     period          |-> period,
     statistics      |-> Null,
     topProducts     |-> <<>>,
     monthlySpending |-> <<>>,
     error           |-> error]

getOrderStatistics_catch(period, error) == Returned(StatisticsFailure(period, error))

\* period = 'all' when the argument is missing ("")
getOrderStatistics(p, period) ==
    /\ call' = [call EXCEPT ![p] =
                  Call("getOrderStatistics", "", [period |-> IF period = "" THEN "all" ELSE period])]
    /\ Enter(p, NoError, NotReturned)

\* getOrderStatistics from its fetch on: what it resolves to.
getOrderStatistics_resolve(period, o, resp) ==
    IF o = "reject" THEN getOrderStatistics_catch(period, Error("Failed to fetch"))
    ELSE IF ~resp.ok
         THEN getOrderStatistics_catch(period,
                  StatusError("Failed to fetch orders with status", resp.status))
    ELSE Returned(StatisticsSuccess(period, inPeriod(resp.body, period)))

getOrderStatistics_get(p, o, orders) ==
    LET period == call[p].args.period
        resp   == Response(o, ServerOrders(orders))
    IN  /\ Resume(p, "getOrderStatistics", Fetch(p, 1, "GET", "/api/orders", Null, o, resp),
                  getOrderStatistics_resolve(period, o, resp))
        /\ UNCHANGED <<cart, dispatched, view>>

----------------------------------------------------------------------------
(* components/SalesDashboard.tsx: SalesDashboard and OrderHistoryCard.     *)
(* One component is mounted; each run of its fetch function is a caller.   *)

\* The props and the useState values of the mounted component.  'effect'
\* says that useEffect has yet to run for the last render; 'from' is the
\* run whose result setData or setOrders last took, 'settled' the runs in
\* the order they came to their finally.
View(component, period, status, limit, autoOpen) ==
    [component |-> component,
     props     |-> [period |-> period, status |-> status, limit |-> limit],
     show      |-> autoOpen,
     loading   |-> FALSE,
     data      |-> Null,
     orders    |-> <<>>,
     error     |-> NoError,
     effect    |-> component # "none",
     from      |-> 0,
     settled   |-> <<>>]

\* No component mounted.
NoView == View("none", "", "", 0, FALSE)

\* const effectivePeriod = period || 'all'
effectivePeriod(period) == IF period = "" THEN "all" ELSE period

\* Math.floor(Math.random() * 4000) and Math.floor(Math.random() * 30), for
\* each of the six months: the least and the largest draws.
MockDraws ==
    {[k \in 1..Months |-> [spent |-> 0, orders |-> 0]],
     [k \in 1..Months |-> [spent |-> 3999, orders |-> 29]]}

generateMockData(draws) ==
    [success         |-> TRUE,
     statistics      |->
        [totalOrders       |-> 124,
         totalSpent        |-> Ratio(1258050, 100),
         averageOrderValue |-> Ratio(10145, 100),
         deliveredOrders   |-> 118,
         paidOrders        |-> 124,
         pendingOrders     |-> 6,
         deliveryRate      |-> Ratio(951, 10)],
     monthlySpending |->
        [k \in 1..Months |->
            [monthsAgo |-> Months - k,
             spent     |-> draws[k].spent + 1500,
             orders    |-> draws[k].orders + 10]],
     topProducts     |->
        <<[name |-> "Pro Wireless Headphones", quantity |-> 45],
          [name |-> "Mechanical Gaming Keyboard", quantity |-> 38],
          [name |-> "4K IPS Monitor", quantity |-> 31],
          [name |-> "Ergonomic Mouse", quantity |-> 27],
          [name |-> "USB-C Docking Station", quantity |-> 22]>>]

\* result.monthlySpending?.some((m) => m.spent > 0)
hasChartData(result) ==
    \E k \in 1..Len(result.monthlySpending) : result.monthlySpending[k].spent > 0

\* What fetchStats hands to setData for a successful result.
setData(result, mock) ==
    IF result.statistics = Null \/ result.statistics.totalOrders = 0
    THEN mock
    ELSE IF ~hasChartData(result)
         THEN [result EXCEPT !.monthlySpending = mock.monthlySpending]
         ELSE result

\* result.orders.slice(0, limit)
slice(orders, limit) ==
    SubSeq(orders, 1, IF limit < Len(orders) THEN limit ELSE Len(orders))

\* A run of the fetch function to its await: setLoading(true), then the call.
fetchBegins(p, fn, args, v) ==
    /\ pc[p] = "idle"
    /\ pc' = [pc EXCEPT ![p] = "get"]
    /\ call' = [call EXCEPT ![p] = Call(fn, "", args)]
    /\ view' = [v EXCEPT !.loading = TRUE]
    /\ UNCHANGED <<server, loc, ret, net, invalidations, cart, dispatched>>

\* The run from the response on: the tool's result, the branch taken on it,
\* and the finally with setLoading(false).
fetchEnds(p, fetched, result, v) ==
    /\ pc[p] = "get"
    /\ pc' = [pc EXCEPT ![p] = "done"]
    /\ net' = Append(net, fetched)
    /\ ret' = [ret EXCEPT ![p] = result]
    /\ view' = [v EXCEPT !.loading = FALSE, !.settled = Append(@, p)]
    /\ UNCHANGED <<server, call, loc, invalidations, cart, dispatched>>

fetchStats(p, v) ==
    fetchBegins(p, "getOrderStatistics", [period |-> effectivePeriod(v.props.period)], v)

fetchOrders(p, v) ==
    fetchBegins(p, "getOrderHistory",
                [days |-> Undefined, startDate |-> Undefined, endDate |-> Undefined,
                 status |-> v.props.status], v)

\* const handleShow = () => setShow(true), in both components; the effect
\* runs again when show has changed.
handleShow ==
    /\ view.component # "none" /\ ~view.effect
    /\ view' = [view EXCEPT !.show = TRUE, !.effect = ~view.show]
    /\ UNCHANGED <<server, pc, call, loc, ret, net, invalidations, cart, dispatched>>

\* const handleClose = () => setShow(false): the modal's Close button
handleClose ==
    /\ view.component # "none" /\ ~view.effect
    /\ view.show
    /\ view' = [view EXCEPT !.show = FALSE, !.effect = TRUE]
    /\ UNCHANGED <<server, pc, call, loc, ret, net, invalidations, cart, dispatched>>

\* useEffect(() => { if (show) { fetchStats(); } }, [show, effectivePeriod])
SalesDashboard_useEffect ==
    /\ view.component = "SalesDashboard" /\ view.effect
    /\ IF view.show
       THEN \E p \in Procs : fetchStats(p, [view EXCEPT !.effect = FALSE])
       ELSE /\ view' = [view EXCEPT !.effect = FALSE]
            /\ UNCHANGED <<server, pc, call, loc, ret, net, invalidations, cart, dispatched>>

\* <Button variant="primary" onClick={fetchStats}>Refresh Data</Button>
SalesDashboard_Refresh ==
    /\ view.component = "SalesDashboard" /\ ~view.effect
    /\ view.show
    /\ \E p \in Procs : fetchStats(p, view)

\* 'await getOrderStatistics(...)' resolves: setData or setError, finally.
SalesDashboard_fetchStats_then(p, o, orders, draws) ==
    LET resp   == Response(o, ServerOrders(orders))
        result == getOrderStatistics_resolve(call[p].args.period, o, resp)
    IN  /\ view.component = "SalesDashboard"
        /\ fetchEnds(p, Fetch(p, 1, "GET", "/api/orders", Null, o, resp), result,
                     IF result.value.success
                     THEN [view EXCEPT !.data = setData(result.value, generateMockData(draws)),
                                       !.from = p]
                     ELSE [view EXCEPT !.error = result.value.error])

\* useEffect(() => { if (showModal) { fetchOrders(); } }, [showModal, limit, status])
OrderHistoryCard_useEffect ==
    /\ view.component = "OrderHistoryCard" /\ view.effect
    /\ IF view.show
       THEN \E p \in Procs : fetchOrders(p, [view EXCEPT !.effect = FALSE])
       ELSE /\ view' = [view EXCEPT !.effect = FALSE]
            /\ UNCHANGED <<server, pc, call, loc, ret, net, invalidations, cart, dispatched>>

\* 'await getOrderHistory(...)' resolves: setOrders or setError, finally.
OrderHistoryCard_fetchOrders_then(p, o, orders) ==
    LET resp   == Response(o, ServerOrders(orders))
        result == getOrderHistory_resolve(call[p].args, o, resp)
    IN  /\ view.component = "OrderHistoryCard"
        /\ fetchEnds(p, Fetch(p, 1, "GET", "/api/orders/mine", Null, o, resp), result,
                     IF result.value.success
                     THEN [view EXCEPT !.orders = slice(result.value.orders, view.props.limit),
                                       !.from = p]
                     ELSE [view EXCEPT !.error = result.value.error])

----------------------------------------------------------------------------
(* productService: searchProducts({ query = '', priceMin, priceMax,        *)
(* category, minRating })                                                  *)

\* The order in which the backend lists its products.
Catalog == <<"p1", "p2", "p3">>

\* GET /api/products?keyword=...: the products whose name holds the keyword
ServerSearch(srv, keyword) ==
    [ok |-> TRUE, status |-> 200,
     body |-> [products |->
                SelectSeq([i \in 1..Len(Catalog) |-> srv[Catalog[i]]],
                          LAMBDA product : keyword = "" \/ keyword = product.name)]]

\* The same filters, the category compared as written.
filteredCaseSensitive(products, priceMin, priceMax, category, minRating) ==
    SelectSeq(products,
              LAMBDA q : /\ (priceMin.def => q.price >= priceMin.val)
                         /\ (priceMax.def => q.price <= priceMax.val)
                         /\ (category # "" => q.category = category)
                         /\ (minRating.def => q.rating >= minRating.val))

\* The client-side filters, applied one after the other.
filtered(products, priceMin, priceMax, category, minRating) ==
    LET byMin == IF priceMin.def
                 THEN SelectSeq(products, LAMBDA q : q.price >= priceMin.val) ELSE products
        byMax == IF priceMax.def
                 THEN SelectSeq(byMin, LAMBDA q : q.price <= priceMax.val) ELSE byMin
        byCat == IF category # ""
                 THEN SelectSeq(byMax, LAMBDA q : toLowerCase(q.category) = toLowerCase(category))
                 ELSE byMax
    IN  IF minRating.def
        THEN SelectSeq(byCat, LAMBDA q : q.rating >= minRating.val) ELSE byCat

\* The result carries no success field, whether the search worked or not.
SearchResult(products, error) ==
    [products |-> products, totalResults |-> Len(products), error |-> error]

searchProducts_catch(error) == SearchResult(<<>>, error)

\* searchProducts from its fetch on: what it resolves to.
searchProducts_resolve(a, o, resp) ==
    IF o = "reject" THEN searchProducts_catch(Error("Failed to fetch"))
    ELSE IF ~resp.ok
         THEN searchProducts_catch(StatusError("API request failed with status", resp.status))
    ELSE SearchResult(filtered(resp.body.products, a.priceMin, a.priceMax,
                               a.category, a.minRating), NoError)

searchProducts(p, query, priceMin, priceMax, category, minRating) ==
    /\ call' = [call EXCEPT ![p] =
                  Call("searchProducts", "",
                  [query |-> query, priceMin |-> priceMin, priceMax |-> priceMax,
                  category |-> category, minRating |-> minRating])]
    /\ Enter(p, NoError, NotReturned)

searchProducts_get(p, o) ==
    LET a    == call[p].args
        resp == Response(o, ServerSearch(server, a.query))
    IN  /\ Resume(p, "searchProducts", Fetch(p, 1, "GET", "/api/products", Null, o, resp),
                  Returned(searchProducts_resolve(a, o, resp)))
        /\ UNCHANGED <<cart, dispatched, view>>

----------------------------------------------------------------------------
(* findTopRatedLowStock({ minRating = 4.0, maxStockLevel = 10, category }) *)

DefaultMinRating == 4
DefaultMaxStockLevel == 10

OrDefault(x, d) == IF x.def THEN x.val ELSE d

\* !searchResult.success && searchResult.products.length === 0, success
\* being undefined when the result has no such field
NothingFound(searchResult) ==
    /\ ~("success" \in DOMAIN searchResult /\ searchResult.success)
    /\ Len(searchResult.products) = 0

\* The same filter, the products left in search order.
lowStockProductsInSearchOrder(products, maxStockLevel) ==
    SelectSeq(products, LAMBDA q : q.countInStock <= maxStockLevel)

\* searchResult.products.filter(p => p.countInStock <= maxStockLevel)
\*                      .sort((a, b) => b.rating - a.rating)
lowStockProducts(products, maxStockLevel) ==
    LET low == SelectSeq(products, LAMBDA q : q.countInStock <= maxStockLevel)
    IN  SortedDescending(low, [i \in 1..Len(low) |-> low[i].rating])

\* rawData.allSearchResults, a key the early return leaves out
NoSearchResults == [present |-> FALSE, list |-> <<>>]
SearchResults(products) == [present |-> TRUE, list |-> products]

LowStockResult(success, products, criteria, all, error) ==
    [success |-> success, products |-> products, totalResults |-> Len(products),
     criteria |-> criteria, allSearchResults |-> all, error |-> error]

findTopRatedLowStock(p, minRating, maxStockLevel, category) ==
    /\ call' = [call EXCEPT ![p] =
                  Call("findTopRatedLowStock", "",
                  [minRating     |-> OrDefault(minRating, DefaultMinRating),
                  maxStockLevel |-> OrDefault(maxStockLevel, DefaultMaxStockLevel),
                  category      |-> category])]
    /\ Enter(p, NoError, NotReturned)

\* 'await searchProducts({ query: '', minRating, category })' resolves.
findTopRatedLowStock_get(p, o) ==
    LET a    == call[p].args
        resp == Response(o, ServerSearch(server, ""))
        searchResult ==
            searchProducts_resolve([query |-> "", priceMin |-> Undefined, priceMax |-> Undefined,
                                    category |-> a.category, minRating |-> Num(a.minRating)],
                                   o, resp)
        low  == lowStockProducts(searchResult.products, a.maxStockLevel)
    IN  /\ Resume(p, "findTopRatedLowStock",
                  Fetch(p, 1, "GET", "/api/products", Null, o, resp),
                  IF NothingFound(searchResult)
                  THEN Returned(LowStockResult(TRUE, <<>>, a, NoSearchResults, NoError))
                  ELSE Returned(LowStockResult(TRUE, low, a,
                                               SearchResults(searchResult.products), NoError)))
        /\ UNCHANGED <<cart, dispatched, view>>

----------------------------------------------------------------------------
(* adminProductService: getProductForAdmin({ productId }) *)

getProductForAdmin_catch(error) ==
    Returned([success |-> FALSE, product |-> Null, error |-> error])

getProductForAdmin_validate(productId) ==
    IF productId = "" THEN Error("Product ID is required") ELSE NoError

adminProductData(product) ==
    [id           |-> product.id,
     name         |-> product.name,
     price        |-> product.price,
     category     |-> product.category,
     countInStock |-> product.countInStock,
     rating       |-> product.rating,
     numReviews   |-> product.numReviews,
     reviews      |-> structuredReviews(product),
     stockStatus  |-> IF product.countInStock > 0 THEN "In Stock" ELSE "Out of Stock"]

getProductForAdmin(p, productId) ==
    /\ call' = [call EXCEPT ![p] =
                  Call("getProductForAdmin", productId, Null)]
    /\ Enter(p, getProductForAdmin_validate(productId),
             getProductForAdmin_catch(getProductForAdmin_validate(productId)))

getProductForAdmin_get(p, o) ==
    LET productId == call[p].productId
        resp      == Response(o, ServerGet(server, productId))
    IN  /\ Resume(p, "getProductForAdmin", Fetch(p, 1, "GET", productId, Null, o, resp),
                  IF o = "reject" THEN getProductForAdmin_catch(Error("Failed to fetch"))
                  ELSE IF ~resp.ok
                       THEN getProductForAdmin_catch(
                                StatusError("Product not found with status", resp.status))
                  ELSE Returned([success |-> TRUE, product |-> adminProductData(resp.body),
                                 error |-> NoError]))
        /\ UNCHANGED <<cart, dispatched, view>>

----------------------------------------------------------------------------
(* contextHelpers: getCartState() and getUserInfo(), which read            *)
(* localStorage.  What localStorage.getItem gives is carried as its kind,  *)
(* "null" (no item), "empty" (the string ''), "garbage" (a text that is    *)
(* not JSON) or "json", and for "json" the value the text denotes.         *)

\* JSON.parse(text): the value, or a SyntaxError thrown
JSONparse(data) ==
    IF data.kind = "json" THEN [threw |-> FALSE, value |-> data.value]
    ELSE [threw |-> TRUE, value |-> Null]

\* Number.prototype.toFixed(2): the string of x with two decimals; the
\* amounts of the model are whole, so the string denotes x itself.
toFixed(x) == [string |-> TRUE, denotes |-> x]

\* The number 0 of the empty results.
Zero == [string |-> FALSE, denotes |-> 0]

EmptyCartState(message) ==
    [isEmpty |-> TRUE, itemCount |-> 0, items |-> <<>>, subtotal |-> Zero,
     message |-> message]

\* } catch (error) { return { isEmpty: true, ... } }
getCartState_rethrow(error) == Threw(error)

getCartState_catch(error) == Returned(EmptyCartState("Error reading cart"))

\* The body of the try, from JSON.parse on.
CartState(parsed) ==
    LET items == IF parsed.value.cartItems.def THEN parsed.value.cartItems.val ELSE <<>>
    IN  [isEmpty   |-> Len(items) = 0,
         itemCount |-> SumSeq([i \in 1..Len(items) |-> items[i].qty]),
         items     |-> [i \in 1..Len(items) |->
                          [id |-> items[i]._id, name |-> items[i].name,
                           quantity |-> items[i].qty, price |-> items[i].price,
                           total |-> items[i].qty * items[i].price]],
         subtotal  |-> toFixed(SumSeq([i \in 1..Len(items) |->
                                           items[i].qty * items[i].price])),
         message   |-> "Cart contains"]

getCartState(p, cartData) ==
    /\ pc[p] = "idle"
    /\ call' = [call EXCEPT ![p] = Call("getCartState", "", [stored |-> cartData])]
    /\ pc' = [pc EXCEPT ![p] = "done"]
    /\ ret' = [ret EXCEPT ![p] =
                IF cartData.kind \in {"null", "empty"}
                THEN Returned(EmptyCartState("Cart is empty"))
                ELSE IF JSONparse(cartData).threw
                     THEN getCartState_catch(Error("SyntaxError"))
                ELSE IF ~JSONparse(cartData).value.object
                     THEN getCartState_catch(Error("TypeError"))
                ELSE Returned(CartState(JSONparse(cartData)))]
    /\ UNCHANGED <<server, loc, net, invalidations, cart, dispatched, view>>

NotLoggedIn(message) ==
    [isLoggedIn |-> FALSE, message |-> message]

\* } catch (error) { return { isLoggedIn: false, ... } }
getUserInfo_catch(error) == Returned(NotLoggedIn("Error reading user info"))

getUserInfo(p, userInfo) ==
    /\ pc[p] = "idle"
    /\ call' = [call EXCEPT ![p] = Call("getUserInfo", "", [stored |-> userInfo])]
    /\ pc' = [pc EXCEPT ![p] = "done"]
    /\ ret' = [ret EXCEPT ![p] =
                IF userInfo.kind \in {"null", "empty"}
                THEN Returned(NotLoggedIn("User is not logged in"))
                ELSE IF JSONparse(userInfo).threw
                     THEN getUserInfo_catch(Error("SyntaxError"))
                ELSE IF ~JSONparse(userInfo).value.object
                     THEN getUserInfo_catch(Error("TypeError"))
                ELSE LET user == JSONparse(userInfo).value
                     IN  Returned([isLoggedIn |-> TRUE, name |-> user.name,
                                   email |-> user.email,
                                   isAdmin |-> user.isAdmin.def /\ user.isAdmin.val,
                                   message |-> "User is logged in as"])]
    /\ UNCHANGED <<server, loc, net, invalidations, cart, dispatched, view>>

----------------------------------------------------------------------------
(* Arguments the callers pass *)

\* Identifier arguments: "" is a missing productId, "p9" an identifier the
\* backend does not hold.
ProductIdArgs == {"", "p1", "p9"}

\* newStockLevel: undefined, or a number from -1 up.
StockLevelArgs ==
    {[def |-> FALSE, val |-> 0]} \cup {[def |-> TRUE, val |-> n] : n \in -1..MaxDelta}

\* operation: "" is an omitted one, "replace" one the function does not know.
OperationArgs == {"add", "subtract", "set", "replace", ""}

\* updates objects: missing, empty, one field unchanged or changed, several
\* fields, a stock count (negative, or any count up to MaxStock), keys
\* outside the allow-list alone and mixed with allowed ones, a property
\* whose value is undefined, and all seven fields.
UpdatesArgs ==
    {NoUpdates, Obj(<<>>),
     Obj(<<Prop("name", "Airpods")>>),
     Obj(<<Prop("name", "Airpods Pro")>>),
     Obj(<<Prop("price", 20), Prop("name", "Airpods")>>),
     Obj(<<Prop("rating", 5)>>),
     Obj(<<Prop("price", 20), Prop("rating", 5), Prop("isAdmin", 1)>>),
     Obj(<<UndefProp("brand"), Prop("category", "Audio")>>),
     Obj(<<Prop("name", "Airpods Pro"), Prop("price", 20), Prop("description", "new"),
           Prop("image", "new.jpg"), Prop("brand", "Apple"), Prop("category", "Audio"),
           Prop("countInStock", 1)>>)}
    \cup {Obj(<<Prop("countInStock", n)>>) : n \in -1..MaxStock}

\* productIds: not an array, or a list of up to MaxIds identifiers.
RECURSIVE SeqsUpTo(_, _)
SeqsUpTo(S, n) ==
    IF n = 0 THEN {<<>>}
    ELSE LET shorter == SeqsUpTo(S, n - 1)
         IN  shorter \cup {Append(q, x) : q \in {r \in shorter : Len(r) = n - 1}, x \in S}

ProductIdsArgs ==
    {[isArray |-> FALSE, ids |-> <<>>]}
    \cup {[isArray |-> TRUE, ids |-> q] : q \in SeqsUpTo({"p1", "p9"}, MaxIds)}

\* updates objects for the bulk call.
BulkUpdatesArgs ==
    {NoUpdates,
     Obj(<<Prop("price", 20)>>),
     Obj(<<Prop("category", "Audio"), Prop("countInStock", -1)>>),
     Obj(<<Prop("price", 20), Prop("rating", 5), Prop("isAdmin", 1)>>)}

\* quantity of addToCart, as twice its value: undefined, -1, 0, 1, 1.5, 2
\* and one more than any stock count
QuantityArgs == {Undefined} \cup {Num(t) : t \in {-2, 0, 2, 3, 4, 2 * (MaxStock + 1)}}

UserIdArgs == {"", "u1"}

QuestionArgs == {"", "Is it durable?"}

OrderIdArgs == {"", "o1", "o9"}

\* days; startDate and endDate as the age in days of the date
DaysArgs == {Undefined, Num(0), Num(7)}
StartDateArgs == {Undefined, Num(10)}
EndDateArgs == {Undefined, Num(8)}
StatusArgs == {"", "paid", "Delivered", "shipped"}

PeriodArgs == {"", "all", "30days", "90days", "year", "week"}

QueryArgs == {"", "iPhone"}
PriceArgs == {Undefined, Num(20)}
CategoryArgs == {"", "electronics", "Toys"}
RatingArgs == {Undefined, Num(4), Num(5)}
StockLimitArgs == {Undefined, Num(1)}

----------------------------------------------------------------------------
(* One caller at a time: every call of every tool, from every stock count  *)
(* of product p1 and several carts.                                        *)

Reviews ==
    <<[rating |-> 5, comment |-> "Great sound", name |-> "Ann"],
      [rating |-> 3, comment |-> "Battery is weak", name |-> ""]>>

Products(c) ==
    [id \in {"p1", "p2", "p3"} |->
        CASE id = "p1" -> [Product("p1", "Airpods", c)
                                EXCEPT !.reviews = Reviews, !.numReviews = Len(Reviews)]
          [] id = "p2" -> [Product("p2", "iPhone", 5)
                                EXCEPT !.price = 30, !.rating = 5, !.category = "Phones"]
          [] OTHER     -> [Product("p3", "Camera", 1) EXCEPT !.price = 20]]

\* The line item the cart holds for a product put there earlier.
LineItem(id, qty) ==
    [_id |-> id, name |-> Products(MaxStock)[id].name, price |-> Products(MaxStock)[id].price,
     countInStock |-> Products(MaxStock)[id].countInStock, qty |-> qty, userId |-> "null"]

Carts ==
    {Cart(<<>>), Cart(<<LineItem("p1", 1)>>), Cart(<<LineItem("p2", 2), LineItem("p1", 1)>>)}

\* What localStorage holds under 'cart' and under 'userInfo'.
Stored(kind, value) == [kind |-> kind, value |-> value]

StoredCarts ==
    {Stored("null", Null), Stored("empty", Null), Stored("garbage", Null),
     Stored("json", [object |-> FALSE, cartItems |-> [def |-> FALSE, val |-> <<>>]]),
     Stored("json", [object |-> TRUE, cartItems |-> [def |-> FALSE, val |-> <<>>]])}
    \cup {Stored("json", [object |-> TRUE, cartItems |-> [def |-> TRUE, val |-> c.cartItems]]) :
            c \in Carts}

StoredUsers ==
    {Stored("null", Null), Stored("empty", Null), Stored("garbage", Null),
     Stored("json", [object |-> FALSE, name |-> "", email |-> "",
                     isAdmin |-> [def |-> FALSE, val |-> FALSE]])}
    \cup {Stored("json", [object |-> TRUE, name |-> "Ann", email |-> "ann@example.com",
                          isAdmin |-> a]) :
            a \in {[def |-> FALSE, val |-> FALSE], [def |-> TRUE, val |-> TRUE]}}

Start(active, stocks, carts) ==
    /\ server \in {Products(c) : c \in stocks}
    /\ cart \in carts
    /\ pc = [p \in Procs |-> IF p \in active THEN "idle" ELSE "off"]
    /\ call = [p \in Procs |-> NoCall]
    /\ loc = [p \in Procs |-> NoLocals]
    /\ ret = [p \in Procs |-> NotReturned]
    /\ net = <<>>
    /\ invalidations = <<>>
    /\ dispatched = <<>>

Init == Start({1}, 0..MaxStock, Carts) /\ view = NoView

Next ==
    \E p \in Procs :
        \/ \E productId \in ProductIdArgs, updates \in UpdatesArgs :
                updateProductDetails(p, productId, updates)
        \/ \E o \in Outcomes : updateProductDetails_get(p, o)
        \/ \E o \in Outcomes, d \in DispatchOutcomes : updateProductDetails_put(p, o, d)
        \/ \E productId \in ProductIdArgs, n \in StockLevelArgs, operation \in OperationArgs :
                updateProductStock(p, productId, n, operation)
        \/ \E o \in Outcomes : updateProductStock_get(p, o)
        \/ \E o \in Outcomes, d \in DispatchOutcomes : updateProductStock_put(p, o, d)
        \/ \E productIds \in ProductIdsArgs, updates \in BulkUpdatesArgs :
                bulkUpdateProducts(p, productIds, updates)
        \/ \E o \in Outcomes, d \in DispatchOutcomes : bulkUpdateProducts_get(p, o, d)
        \/ \E o \in Outcomes, d \in DispatchOutcomes : bulkUpdateProducts_put(p, o, d)
        \/ \E productId \in ProductIdArgs : getProductForAdmin(p, productId)
        \/ \E o \in Outcomes : getProductForAdmin_get(p, o)
        \/ \E cartData \in StoredCarts : getCartState(p, cartData)
        \/ \E userInfo \in StoredUsers : getUserInfo(p, userInfo)
        \/ \E productId \in ProductIdArgs, quantity \in QuantityArgs, userId \in UserIdArgs :
                addToCart(p, productId, quantity, userId)
        \/ \E o \in Outcomes : addToCart_get(p, o)
        \/ \E productId \in ProductIdArgs \cup {"p2"} : removeFromCartTool(p, productId)
        \/ clearCartTool(p)
        \/ \E productId \in ProductIdArgs, question \in QuestionArgs :
                generateReviewSummary(p, productId, question)
        \/ \E o \in Outcomes : generateReviewSummary_get(p, o)
        \/ \E productId \in ProductIdArgs : getProsAndCons(p, productId)
        \/ \E o \in Outcomes : getProsAndCons_get(p, o)
        \/ \E productId \in ProductIdArgs, question \in QuestionArgs :
                askAboutReviews(p, productId, question)
        \/ \E o \in Outcomes : askAboutReviews_get(p, o)
        \/ \E days \in DaysArgs, startDate \in StartDateArgs, endDate \in EndDateArgs,
              status \in StatusArgs : getOrderHistory(p, days, startDate, endDate, status)
        \/ \E o \in Outcomes, orders \in OrderLists : getOrderHistory_get(p, o, orders)
        \/ \E orderId \in OrderIdArgs : getOrderDetails(p, orderId)
        \/ \E o \in Outcomes, orders \in OrderLists : getOrderDetails_get(p, o, orders)
        \/ \E period \in PeriodArgs : getOrderStatistics(p, period)
        \/ \E o \in Outcomes, orders \in OrderLists : getOrderStatistics_get(p, o, orders)
        \/ \E query \in QueryArgs, priceMin \in PriceArgs, priceMax \in PriceArgs,
              category \in CategoryArgs, minRating \in RatingArgs :
                searchProducts(p, query, priceMin, priceMax, category, minRating)
        \/ \E o \in Outcomes : searchProducts_get(p, o)
        \/ \E minRating \in RatingArgs, maxStockLevel \in StockLimitArgs,
              category \in CategoryArgs :
                findTopRatedLowStock(p, minRating, maxStockLevel, category)
        \/ \E o \in Outcomes : findTopRatedLowStock_get(p, o)

Spec == Init /\ [][Next]_vars

----------------------------------------------------------------------------
(* Two callers at once: mutations of the same products, interleaved at     *)
(* every await.                                                            *)

ConcUpdatesArgs ==
    {Obj(<<Prop("name", "Airpods Pro")>>),
     Obj(<<Prop("price", 20)>>),
     Obj(<<Prop("countInStock", 1), Prop("brand", "Apple")>>)}

ConcStockArgs ==
    {<<n, "add">> : n \in 1..2} \cup {<<1, "subtract">>, <<1, "set">>}

ConcProductIdsArgs ==
    {[isArray |-> TRUE, ids |-> <<"p1">>], [isArray |-> TRUE, ids |-> <<"p2", "p1">>]}

InitConc == Start({1, 2}, {MaxStock}, {Cart(<<>>)}) /\ view = NoView

NextConc ==
    \E p \in Procs :
        \/ \E updates \in ConcUpdatesArgs : updateProductDetails(p, "p1", updates)
        \/ \E o \in Outcomes : updateProductDetails_get(p, o)
        \/ \E o \in Outcomes, d \in DispatchOutcomes : updateProductDetails_put(p, o, d)
        \/ \E a \in ConcStockArgs :
                updateProductStock(p, "p1", [def |-> TRUE, val |-> a[1]], a[2])
        \/ \E o \in Outcomes : updateProductStock_get(p, o)
        \/ \E o \in Outcomes, d \in DispatchOutcomes : updateProductStock_put(p, o, d)
        \/ \E productIds \in ConcProductIdsArgs :
                bulkUpdateProducts(p, productIds, Obj(<<Prop("category", "Audio")>>))
        \/ \E o \in Outcomes, d \in DispatchOutcomes : bulkUpdateProducts_get(p, o, d)
        \/ \E o \in Outcomes, d \in DispatchOutcomes : bulkUpdateProducts_put(p, o, d)

SpecConc == InitConc /\ [][NextConc]_vars

----------------------------------------------------------------------------
(* The cart tools called in a row on one store: a caller calls once every  *)
(* caller before it has its result.                                        *)

InTurn(p) == \A q \in Procs : q < p => pc[q] = "done"

CartQuantityArgs == {Undefined} \cup {Num(2 * n) : n \in 1..MaxStock}

\* The carts at the start hold no more of a product than the backend has.
InitCart ==
    /\ Start({1, 2}, 0..MaxStock, Carts)
    /\ view = NoView
    /\ \A i \in 1..Len(cart.cartItems) :
          cart.cartItems[i].qty <= server[cart.cartItems[i]._id].countInStock

NextCart ==
    \E p \in Procs :
        \/ \E productId \in ProductIdArgs, quantity \in CartQuantityArgs :
                InTurn(p) /\ addToCart(p, productId, quantity, "u1")
        \/ \E o \in Outcomes : addToCart_get(p, o)
        \/ \E productId \in ProductIdArgs : InTurn(p) /\ removeFromCartTool(p, productId)
        \/ InTurn(p) /\ clearCartTool(p)

SpecCart == InitCart /\ [][NextCart]_vars

----------------------------------------------------------------------------
(* A mounted component: the user opens and closes the modal and asks for a *)
(* refresh, and every fetch under way comes back at some time.             *)

DashboardPeriods == {"", "30days"}
CardStatuses == {"", "paid"}
CardLimits == {1, 5}

InitComponents ==
    /\ Start({1, 2}, {MaxStock}, {Cart(<<>>)})
    /\ view \in {View("SalesDashboard", period, "", 0, autoOpen) :
                    period \in DashboardPeriods, autoOpen \in BOOLEAN}
               \cup {View("OrderHistoryCard", "", status, limit, autoOpen) :
                       status \in CardStatuses, limit \in CardLimits, autoOpen \in BOOLEAN}

StatsComeBack ==
    \E p \in Procs, o \in Outcomes, orders \in OrderLists, draws \in MockDraws :
        SalesDashboard_fetchStats_then(p, o, orders, draws)

OrdersComeBack ==
    \E p \in Procs, o \in Outcomes, orders \in OrderLists :
        OrderHistoryCard_fetchOrders_then(p, o, orders)

NextComponents ==
    \/ handleShow
    \/ handleClose
    \/ SalesDashboard_useEffect
    \/ SalesDashboard_Refresh
    \/ StatsComeBack
    \/ OrderHistoryCard_useEffect
    \/ OrdersComeBack

\* The browser settles every fetch and runs the continuation of the await.
SpecComponents ==
    InitComponents /\ [][NextComponents]_vars /\ WF_vars(StatsComeBack) /\ WF_vars(OrdersComeBack)

----------------------------------------------------------------------------
(* Vocabulary of the properties *)

WritableFields ==
    {"name", "price", "description", "image", "brand", "category", "countInStock"}

Finished(p, fn) == pc[p] = "done" /\ call[p].fn = fn
Result(p) == ret[p].value
Gave(p) == ret[p].kind = "returned"

FetchesOf(p) == {k \in 1..Len(net) : net[k].proc = p}
PutsOf(p) == {k \in FetchesOf(p) : net[k].method = "PUT"}

\* The keys of an updates object outside the seven writable fields, in the
\* order the caller wrote them.
KeysOutsideAllowList(updates) ==
    SelectSeq([i \in 1..Len(updates.entries) |-> updates.entries[i].key],
              LAMBDA k : k \notin WritableFields)

Max(a, b) == IF a >= b THEN a ELSE b

\* The GET of caller p for its item, once it has come back OK.
ReadOf(p, item) ==
    {g \in FetchesOf(p) : net[g].method = "GET" /\ net[g].item = item /\ net[g].ok}

----------------------------------------------------------------------------
(* C1: updateProductStock with operation 'subtract', current stock c >= 0  *)
(* and delta d >= 0: the countInStock submitted in the PUT and the         *)
(* newStockLevel of the result both equal max(0, c - d); no result ever    *)
(* carries a negative newStockLevel.                                       *)

C1_SubtractNeverNegative ==
    \A p \in Procs :
        (call[p].fn = "updateProductStock" /\ call[p].operation = "subtract") =>
            /\ \A g \in ReadOf(p, 1) :
                 LET c == net[g].response.countInStock
                     d == call[p].newStockLevel.val
                 IN  (c >= 0 /\ d >= 0) =>
                        /\ \A u \in PutsOf(p) :
                              /\ net[u].body.countInStock = Max(0, c - d)
                              /\ net[u].body.countInStock >= 0
                        /\ (pc[p] = "done" /\ Result(p).success) =>
                              /\ Result(p).newStockLevel = Max(0, c - d)
                              /\ Result(p).oldStockLevel = c
            /\ pc[p] = "done" => Gave(p) /\ Result(p).newStockLevel >= 0

\* stock 3, subtract 4: the PUT carried 0 and the result reports 0
C1_Witness ==
    \E p \in Procs :
        /\ Finished(p, "updateProductStock")
        /\ call[p].operation = "subtract"
        /\ call[p].newStockLevel.val = 4
        /\ Result(p).success
        /\ Result(p).oldStockLevel = 3
        /\ Result(p).newStockLevel = 0
        /\ \E u \in PutsOf(p) : net[u].body.countInStock = 0 /\ net[u].ok

----------------------------------------------------------------------------
(* C2: updateProductDetails and bulkUpdateProducts, called with an         *)
(* identifier (list) and an updates object holding a key outside the       *)
(* allow-list: the call returns success=false, issues no PUT, and its      *)
(* error lists exactly the invalid keys.                                   *)

IdentifierGiven(p) ==
    \/ call[p].fn = "updateProductDetails" /\ call[p].productId # ""
    \/ call[p].fn = "bulkUpdateProducts"
            /\ call[p].productIds.isArray /\ Len(call[p].productIds.ids) > 0

C2_InvalidKeysRejectedAndListed ==
    \A p \in Procs :
        (/\ pc[p] = "done"
         /\ IdentifierGiven(p)
         /\ KeysOutsideAllowList(call[p].updates) # <<>>) =>
            /\ Gave(p)
            /\ ~Result(p).success
            /\ PutsOf(p) = {}
            /\ Result(p).error.kind = "Invalid fields"
            /\ Result(p).error.fields = KeysOutsideAllowList(call[p].updates)

----------------------------------------------------------------------------
(* C3: validation errors (missing productId or orderId, missing question,  *)
(* empty or absent updates, an update key outside the allow-list, an empty *)
(* or non-array productIds, an undefined or negative stock level, a        *)
(* quantity that is not a positive integer) are detected before any        *)
(* network call: the function issues no HTTP request, a GET included, and  *)
(* returns the failure envelope.                                           *)

BadUpdates(updates) ==
    \/ ~updates.present
    \/ Len(updates.entries) = 0
    \/ KeysOutsideAllowList(updates) # <<>>

\* The arguments of the call of caller p hold one of the listed errors.
ValidationError(p) ==
    LET c == call[p]
    IN  CASE c.fn = "updateProductDetails" -> c.productId = "" \/ BadUpdates(c.updates)
          [] c.fn = "bulkUpdateProducts" ->
                \/ ~c.productIds.isArray
                \/ Len(c.productIds.ids) = 0
                \/ BadUpdates(c.updates)
          [] c.fn = "updateProductStock" ->
                \/ c.productId = ""
                \/ ~c.newStockLevel.def
                \/ c.newStockLevel.val < 0
          [] c.fn = "addToCart" ->
                \/ c.productId = ""
                \/ (c.args.quantity.def /\ ~(c.args.quantity.val \in {2 * n : n \in 1..(MaxStock + 2)}))
          [] c.fn = "askAboutReviews" -> c.productId = "" \/ c.args.question = ""
          [] c.fn \in {"removeFromCartTool", "generateReviewSummary", "getProsAndCons",
                       "getProductForAdmin"} -> c.productId = ""
          [] c.fn = "getOrderDetails" -> c.args.orderId = ""
          [] OTHER -> FALSE

C3_ValidationBeforeAnyRequest ==
    \A p \in Procs :
        ValidationError(p) =>
            /\ FetchesOf(p) = {}
            /\ pc[p] = "done" => Gave(p) /\ ~Result(p).success

----------------------------------------------------------------------------
(* C4: starting from stock counts >= 0, every countInStock submitted in a  *)
(* PUT by updateProductStock, updateProductDetails or bulkUpdateProducts   *)
(* is >= 0.                                                                *)

C4_SubmittedStockNeverNegative ==
    \A u \in 1..Len(net) :
        net[u].method = "PUT" => net[u].body.countInStock >= 0

----------------------------------------------------------------------------
(* C5: no conflict detection.  When a mutation's GET of a product comes    *)
(* back before another caller's PUT of that product and its own PUT after  *)
(* it (both reads before either write), both calls report success and the  *)
(* later PUT overwrites all seven writable fields with values merged from  *)
(* its own stale read: a field only the earlier write changed is back at   *)
(* the value read; of two interleaved 'add' stock updates the final stock  *)
(* holds only the later delta.                                             *)

\* What the call of caller p reports for its item: the envelope's success,
\* or for a bulk call the item's entry of results.
ReportsSuccess(p, item) ==
    IF call[p].fn = "bulkUpdateProducts"
    THEN Len(loc[p].results) >= item => loc[p].results[item].success
    ELSE pc[p] = "done" => Gave(p) /\ Result(p).success

\* The caller passed a value for field f.
Supplied(p, f) ==
    IF call[p].fn = "updateProductStock" THEN f = "countInStock"
    ELSE \E i \in 1..Len(call[p].updates.entries) :
            call[p].updates.entries[i].key = f /\ call[p].updates.entries[i].def

\* g2 < u1 < u2: u2 is the OK PUT of the round trip that read at g2, u1 an
\* OK PUT of the same product by the other caller in between.
StaleWrite(g2, u1, u2) ==
    /\ g2 < u1 /\ u1 < u2
    /\ net[g2].method = "GET" /\ net[g2].ok
    /\ net[u2].method = "PUT" /\ net[u2].ok
    /\ net[u2].proc = net[g2].proc /\ net[u2].item = net[g2].item
    /\ net[u1].method = "PUT" /\ net[u1].ok
    /\ net[u1].proc # net[g2].proc
    /\ net[u1].id = net[g2].id

LastWriteTo(u) ==
    \A k \in (u + 1)..Len(net) : ~(net[k].method = "PUT" /\ net[k].ok /\ net[k].id = net[u].id)

C5_LaterWriteClobbers ==
    \A g2, u1, u2 \in 1..Len(net) :
        StaleWrite(g2, u1, u2) =>
            LET early == net[u1].proc
                late  == net[u2].proc
                id    == net[u2].id
                read  == net[g2].response
            IN  /\ ReportsSuccess(early, net[u1].item)
                /\ ReportsSuccess(late, net[u2].item)
                /\ \A f \in WritableFields :
                     /\ ~Supplied(late, f) => net[u2].body[f] = read[f]
                     /\ LastWriteTo(u2) =>
                          /\ server[id][f] = net[u2].body[f]
                          /\ (~Supplied(late, f) /\ net[u1].body[f] # read[f]) =>
                                server[id][f] = read[f] /\ server[id][f] # net[u1].body[f]
                /\ (/\ call[late].fn = "updateProductStock" /\ call[late].operation = "add"
                    /\ call[early].fn = "updateProductStock" /\ call[early].operation = "add"
                    /\ LastWriteTo(u2)) =>
                        /\ server[id].countInStock
                                = read.countInStock + call[late].newStockLevel.val
                        /\ server[id].countInStock
                                # read.countInStock + call[late].newStockLevel.val
                                                    + call[early].newStockLevel.val

\* Caller 1 renames the product, caller 2 reprices it; both read first, 1
\* writes, then 2: both report success, and the name is the old one again.
C5_Witness ==
    /\ Finished(1, "updateProductDetails") /\ Finished(2, "updateProductDetails")
    /\ Result(1).success /\ Result(2).success
    /\ \E g2, u1, u2 \in 1..Len(net) :
            /\ StaleWrite(g2, u1, u2) /\ net[u1].proc = 1 /\ LastWriteTo(u2)
            /\ net[u1].body.name = "Airpods Pro"
    /\ server["p1"].name = "Airpods"
    /\ server["p1"].price = 20

----------------------------------------------------------------------------
(* C6: every exposed tool function (cart, product search, review, order    *)
(* and admin-product tools), whatever its arguments and whatever each of   *)
(* its fetches comes to (rejected promise, non-OK status, OK status),      *)
(* completes by returning a result object: no call ends by raising, and a  *)
(* call that has not returned yet is waiting for a fetch to come back.     *)

Tools ==
    {"addToCart", "removeFromCartTool", "clearCartTool", "searchProducts",
     "findTopRatedLowStock", "generateReviewSummary", "getProsAndCons", "askAboutReviews",
     "getOrderHistory", "getOrderDetails", "getOrderStatistics", "updateProductDetails",
     "getProductForAdmin", "bulkUpdateProducts", "updateProductStock"}

C6_ToolsReturnAndNeverRaise ==
    \A p \in Procs :
        /\ ret[p].kind # "threw"
        /\ pc[p] = "done" => call[p].fn # "none" /\ Gave(p) /\ Result(p) # Null
        /\ (call[p].fn \in Tools /\ pc[p] # "done") =>
                pc[p] \in {"get", "put"} /\ ret[p] = NotReturned

\* updateProductDetails whose PUT rejected: the call has returned, with the
\* failure envelope
C6_Witness ==
    \E p \in Procs :
        /\ Finished(p, "updateProductDetails")
        /\ Gave(p) /\ ~Result(p).success
        /\ \E k \in FetchesOf(p) : net[k].method = "PUT" /\ net[k].outcome = "reject"

----------------------------------------------------------------------------
(* C7: for each aggregation function (getOrderHistory, getOrderStatistics, *)
(* searchProducts, findTopRatedLowStock), when the underlying fetch throws *)
(* or comes back non-OK, the returned envelope has success=false together  *)
(* with zero/empty defaults for every numeric and array field.             *)

FetchFailed(p) == \E k \in FetchesOf(p) : ~net[k].ok

C7_AggregationFailureEnvelope ==
    \A p \in Procs :
        (pc[p] = "done" /\ FetchFailed(p)) =>
            LET r == Result(p)
            IN  CASE call[p].fn = "getOrderHistory" ->
                        /\ "success" \in DOMAIN r /\ ~r.success
                        /\ r.orders = <<>>
                        /\ r.totalOrders = 0 /\ r.totalSpent = 0
                        /\ r.deliveredOrders = 0 /\ r.paidOrders = 0 /\ r.pendingOrders = 0
                        /\ r.averageOrderValue.num = 0
                  [] call[p].fn = "getOrderStatistics" ->
                        /\ "success" \in DOMAIN r /\ ~r.success
                        /\ r.topProducts = <<>> /\ r.monthlySpending = <<>>
                  [] call[p].fn = "searchProducts" ->
                        /\ "success" \in DOMAIN r /\ ~r.success
                        /\ r.products = <<>> /\ r.totalResults = 0
                  [] call[p].fn = "findTopRatedLowStock" ->
                        /\ "success" \in DOMAIN r /\ ~r.success
                        /\ r.products = <<>> /\ r.totalResults = 0
                  [] OTHER -> TRUE

----------------------------------------------------------------------------
(* C8: bulkUpdateProducts with a non-empty identifier list and an          *)
(* allow-listed updates object: results holds one entry per identifier in  *)
(* input order, successCount + failureCount = totalProcessed = the length  *)
(* of productIds, an entry is a success exactly when its GET and PUT both  *)
(* came back OK, and over [validId, missingId] with the valid one's round  *)
(* trip OK it returns successCount 1 and failureCount 1.                   *)

BulkAccepted(p) ==
    /\ Finished(p, "bulkUpdateProducts")
    /\ call[p].productIds.isArray /\ Len(call[p].productIds.ids) > 0
    /\ call[p].updates.present /\ Len(call[p].updates.entries) > 0
    /\ KeysOutsideAllowList(call[p].updates) = <<>>

ItemUpdated(p, i) ==
    /\ ReadOf(p, i) # {}
    /\ \E u \in PutsOf(p) : net[u].item = i /\ net[u].ok

C8_BulkOneResultPerIdentifier ==
    \A p \in Procs :
        BulkAccepted(p) =>
            LET ids == call[p].productIds.ids
                r   == Result(p)
            IN  /\ Gave(p)
                /\ Len(r.results) = Len(ids)
                /\ \A i \in 1..Len(ids) :
                      /\ r.results[i].productId = ids[i]
                      /\ r.results[i].success <=> ItemUpdated(p, i)
                /\ r.totalProcessed = Len(ids)
                /\ r.successCount + r.failureCount = r.totalProcessed
                /\ r.successCount = Cardinality({i \in 1..Len(ids) : r.results[i].success})
                /\ (ids = <<"p1", "p9">> /\ ItemUpdated(p, 1)) =>
                      r.successCount = 1 /\ r.failureCount = 1

C8_Witness ==
    \E p \in Procs :
        /\ BulkAccepted(p)
        /\ call[p].productIds.ids = <<"p1", "p9">>
        /\ Result(p).successCount = 1 /\ Result(p).failureCount = 1
        /\ Result(p).results[1].success /\ ~Result(p).results[2].success
        /\ Result(p).results[2].error.status = 404

----------------------------------------------------------------------------
(* C9: the success flag of bulkUpdateProducts is true if and only if at    *)
(* least one identifier of the batch was updated (successCount > 0); a     *)
(* batch whose every item failed, or that validation rejected, returns     *)
(* success=false.                                                          *)

C9_BulkSuccessIffOneUpdated ==
    \A p \in Procs :
        Finished(p, "bulkUpdateProducts") =>
            /\ Gave(p)
            /\ Result(p).success <=> Result(p).successCount > 0
            /\ Result(p).success <=>
                  \E i \in 1..Len(call[p].productIds.ids) : ItemUpdated(p, i)
            /\ ~BulkAccepted(p) => ~Result(p).success /\ FetchesOf(p) = {}

\* both identifiers of a batch failed, one at its GET and one at its PUT
C9_Witness ==
    \E p \in Procs :
        /\ BulkAccepted(p)
        /\ Len(call[p].productIds.ids) = 2
        /\ Result(p).failureCount = 2
        /\ ~Result(p).success
        /\ PutsOf(p) # {}

----------------------------------------------------------------------------
(* C10: after a successful updateProductDetails, fieldsUpdated lists every *)
(* key the caller passed, and changes lists exactly the passed keys whose  *)
(* new value differs from the value of the fetched product, each as        *)
(* {field, oldValue, newValue, changed: true}.                             *)

ChangeFields(r) == [i \in 1..Len(r.changes) |-> r.changes[i].field]

C10_ChangesAreTheDifferingKeys ==
    \A p \in Procs :
        (Finished(p, "updateProductDetails") /\ Result(p).success) =>
            \A g \in ReadOf(p, 1) :
                LET passed  == call[p].updates.entries
                    fetched == net[g].response
                    r       == Result(p)
                    differs(e) == ~e.def \/ e.val # fetched[e.key]
                IN  /\ r.fieldsUpdated = [i \in 1..Len(passed) |-> passed[i].key]
                    /\ ChangeFields(r) =
                          SelectSeq([i \in 1..Len(passed) |-> passed[i].key],
                                    LAMBDA k : \E i \in 1..Len(passed) :
                                                  passed[i].key = k /\ differs(passed[i]))
                    /\ \A i \in 1..Len(r.changes) :
                          /\ r.changes[i].changed
                          /\ r.changes[i].oldValue = fetched[r.changes[i].field]
                          /\ \A j \in 1..Len(passed) :
                                (passed[j].key = r.changes[i].field /\ passed[j].def) =>
                                    r.changes[i].newValue = passed[j].val

\* {price: 20, name: "Airpods"} on a product named "Airpods" priced 10
C10_Witness ==
    \E p \in Procs :
        /\ Finished(p, "updateProductDetails") /\ Result(p).success
        /\ Result(p).fieldsUpdated = <<"price", "name">>
        /\ ChangeFields(Result(p)) = <<"price">>
        /\ Result(p).changes[1].oldValue = 10 /\ Result(p).changes[1].newValue = 20

----------------------------------------------------------------------------
(* C11: every successful mutation (updateProductDetails,                   *)
(* updateProductStock, bulkUpdateProducts) dispatches the product          *)
(* cache-invalidation signal after its write; when that dispatch throws,   *)
(* the error is swallowed and the result (success flag, counts, updated    *)
(* product) is what it is when the dispatch succeeds.                      *)

Mutations == {"updateProductDetails", "updateProductStock", "bulkUpdateProducts"}

DispatchesOf(p) == {k \in 1..Len(invalidations) : invalidations[k].proc = p}

\* The PUTs of caller p that came back OK.
WritesOf(p) == {u \in PutsOf(p) : net[u].ok}

C11_InvalidationAfterWriteAndSwallowed ==
    \A p \in Procs :
        (pc[p] = "done" /\ call[p].fn \in Mutations /\ WritesOf(p) # {}) =>
            /\ Gave(p)
            /\ Result(p).success
            /\ \E k \in DispatchesOf(p) :
                  \A u \in WritesOf(p) : invalidations[k].after >= u
            /\ IF call[p].fn = "bulkUpdateProducts"
               THEN /\ Result(p).successCount = Cardinality(WritesOf(p))
                    /\ Result(p).failureCount =
                          Len(call[p].productIds.ids) - Cardinality(WritesOf(p))
               ELSE \A u \in WritesOf(p) : Result(p).updatedProduct = net[u].response

\* a stock update and a batch, each written and then told that the dispatch
\* threw, still report what they wrote
C11_Witness ==
    \E p \in Procs :
        /\ pc[p] = "done" /\ call[p].fn \in Mutations
        /\ WritesOf(p) # {}
        /\ \A k \in DispatchesOf(p) : invalidations[k].outcome = "throws"
        /\ DispatchesOf(p) # {}
        /\ Result(p).success

----------------------------------------------------------------------------
(* C12: clearCartTool is idempotent.  Called twice in a row from any cart  *)
(* state, both calls return success=true with cartItemsCount 0, and the    *)
(* second reports 'Cart is already empty' without dispatching a clear      *)
(* action; a call on an empty cart dispatches nothing and leaves the store *)
(* unchanged.                                                              *)

ActionsOf(p) == {k \in 1..Len(dispatched) : dispatched[k].proc = p}

C12_ClearCartIdempotent ==
    \A p \in Procs :
        Finished(p, "clearCartTool") =>
            /\ Gave(p)
            /\ Result(p).success
            /\ Result(p).cartItemsCount = 0
            /\ (\A q \in Procs : q > p => pc[q] = "idle") => cart.cartItems = <<>>
            /\ Result(p).message = "Cart is already empty" =>
                  /\ ActionsOf(p) = {}
                  /\ Result(p).cart = Cart(<<>>)
            /\ \A q \in Procs :
                  (q < p /\ Finished(q, "clearCartTool")) =>
                      /\ Result(p).message = "Cart is already empty"
                      /\ ActionsOf(p) = {}
                      /\ Cardinality({k \in 1..Len(dispatched) :
                                         dispatched[k].type = "cart/clearCartItems"}) <= 1

\* a cart of two line items cleared twice: the first call dispatched the
\* clear, the second found the cart empty
C12_Witness ==
    /\ Finished(1, "clearCartTool") /\ Finished(2, "clearCartTool")
    /\ dispatched = <<Action(1, "cart/clearCartItems")>>
    /\ Result(1).message = "Successfully cleared"
    /\ Result(2).message = "Cart is already empty"
    /\ Result(1).cartItemsCount = 0 /\ Result(2).cartItemsCount = 0

----------------------------------------------------------------------------
(* C13: updateProductStock with current stock c and n >= 0.  'add' submits *)
(* c + n, 'set' submits n, and a missing or unrecognized operation is      *)
(* treated as 'set'; in every successful case oldStockLevel = c,           *)
(* newStockLevel is the submitted value and stockChange is                 *)
(* newStockLevel - oldStockLevel.                                          *)

C13_StockArithmetic ==
    \A p \in Procs :
        call[p].fn = "updateProductStock" =>
            \A g \in ReadOf(p, 1) :
                LET c  == net[g].response.countInStock
                    n  == call[p].newStockLevel.val
                    op == call[p].operation
                IN  /\ n >= 0
                    /\ \A u \in PutsOf(p) :
                          /\ op = "add" => net[u].body.countInStock = c + n
                          /\ op \notin {"add", "subtract"} => net[u].body.countInStock = n
                    /\ (pc[p] = "done" /\ Result(p).success) =>
                          /\ Result(p).oldStockLevel = c
                          /\ \E u \in WritesOf(p) :
                                Result(p).newStockLevel = net[u].body.countInStock
                          /\ Result(p).stockChange =
                                Result(p).newStockLevel - Result(p).oldStockLevel

\* stock 3 and no operation given with level 1: 1 is submitted and the
\* result reports 3 -> 1, a change of -2
C13_Witness ==
    \E p \in Procs :
        /\ Finished(p, "updateProductStock")
        /\ call[p].operation = ""
        /\ Result(p).success
        /\ Result(p).oldStockLevel = 3
        /\ Result(p).newStockLevel = 1
        /\ Result(p).stockChange = -2
        /\ \E u \in WritesOf(p) : net[u].body.countInStock = 1

----------------------------------------------------------------------------
(* C14: getOrderHistory with days = N (N > 0) as its only filter returns   *)
(* exactly the fetched orders whose createdAt is not earlier than N days   *)
(* before the invocation, in the order fetched: an order dated exactly N   *)
(* days before is included, any older order is not.                        *)

Ids(orders) == [i \in 1..Len(orders) |-> orders[i].id]

\* Caller p called getOrderHistory with days = N > 0 and nothing else.
DaysOnly(p) ==
    /\ call[p].fn = "getOrderHistory"
    /\ call[p].args.days.def /\ call[p].args.days.val > 0
    /\ ~call[p].args.startDate.def /\ ~call[p].args.endDate.def
    /\ call[p].args.status = ""

----------------------------------------------------------------------------
(* C15: the status of an order is delivered if isDelivered, else paid if   *)
(* isPaid, else pending, in getOrderHistory and in getOrderDetails; the    *)
(* status filter of getOrderHistory returns exactly the orders whose       *)
(* status equals the requested string without regard to case, so a status  *)
(* that is none of the three matches no order and the call still succeeds. *)

Derived(isPaid, isDelivered) ==
    CASE isDelivered -> "delivered"
      [] ~isDelivered /\ isPaid -> "paid"
      [] OTHER -> "pending"

\* The requested status with its case folded.
Folded(status) == IF status = "Delivered" THEN "delivered" ELSE status

\* Caller p called getOrderHistory with no date filter in force.
NoDates(p) ==
    /\ call[p].fn = "getOrderHistory"
    /\ ~(call[p].args.days.def /\ call[p].args.days.val # 0)
    /\ ~call[p].args.startDate.def /\ ~call[p].args.endDate.def

C15_StatusPrecedenceAndFilter ==
    \A p \in Procs :
        (/\ pc[p] = "done"
         /\ call[p].fn \in {"getOrderHistory", "getOrderDetails"}
         /\ Gave(p)
         /\ Result(p).success) =>
            /\ call[p].fn = "getOrderDetails" =>
                  Result(p).order.status =
                      Derived(Result(p).order.isPaid, Result(p).order.isDelivered)
            /\ call[p].fn = "getOrderHistory" =>
                  \A i \in 1..Len(Result(p).orders) :
                      LET order == Result(p).orders[i]
                      IN  /\ order.status = Derived(order.isPaid, order.isDelivered)
                          /\ call[p].args.status # "" =>
                                order.status = Folded(call[p].args.status)
            /\ (NoDates(p) /\ call[p].args.status # "") =>
                  \A g \in FetchesOf(p) :
                      /\ net[g].ok
                      /\ Ids(Result(p).orders) =
                            Ids(SelectSeq(net[g].response, LAMBDA order :
                                    Derived(order.isPaid, order.isDelivered) =
                                        Folded(call[p].args.status)))
                      /\ Folded(call[p].args.status) \notin {"delivered", "paid", "pending"} =>
                            Result(p).orders = <<>> /\ Result(p).totalOrders = 0

\* status 'Delivered' over an order delivered but not paid and a pending
\* one: the delivered order alone comes back
C15_Witness ==
    \E p \in Procs :
        /\ pc[p] = "done" /\ NoDates(p)
        /\ call[p].args.status = "Delivered"
        /\ Result(p).success
        /\ Len(Result(p).orders) = 1
        /\ Result(p).orders[1].status = "delivered"
        /\ ~Result(p).orders[1].isPaid
        /\ \E g \in FetchesOf(p) : Len(net[g].response) = 2

----------------------------------------------------------------------------
(* C16: a successful getOrderStatistics returns a monthlySpending of       *)
(* exactly 6 entries, one per calendar month of the trailing 6 months,     *)
(* oldest first, months without orders included with spent 0 and orders   *)
(* 0; when no order matches the period, totalOrders, averageOrderValue and *)
(* deliveryRate are 0 and all six entries have spent 0.                    *)

\* The fetched orders inside the period of the call.
Matching(fetched, period) ==
    SelectSeq(fetched, LAMBDA order :
        CASE period = "30days" -> order.age <= 30
          [] period = "90days" -> order.age <= 90
          [] period = "year"   -> order.age <= 365
          [] OTHER             -> TRUE)

C16_SixMonthHistogram ==
    \A p \in Procs :
        (Finished(p, "getOrderStatistics") /\ Gave(p) /\ Result(p).success) =>
            \A g \in FetchesOf(p) :
                LET matching == Matching(net[g].response, Result(p).period)
                    months   == Result(p).monthlySpending
                    stats    == Result(p).statistics
                IN  /\ Len(months) = 6
                    /\ \A k \in 1..6 :
                          LET inMonth == {i \in 1..Len(matching) :
                                             matching[i].monthsAgo = months[k].monthsAgo}
                          IN  /\ months[k].monthsAgo = 6 - k
                              /\ months[k].orders = Cardinality(inMonth)
                              /\ inMonth = {} => months[k].spent = 0
                              /\ \A i \in inMonth : months[k].spent >= matching[i].totalPrice
                    /\ stats.totalOrders = Len(matching)
                    /\ matching = <<>> =>
                          /\ stats.averageOrderValue = Ratio(0, 1)
                          /\ stats.deliveryRate = Ratio(0, 1)
                          /\ \A k \in 1..6 : months[k].spent = 0 /\ months[k].orders = 0

\* period '30days' over orders 100 and 400 days old: nothing matches, and
\* the six months come back empty
C16_Witness ==
    \E p \in Procs :
        /\ Finished(p, "getOrderStatistics") /\ Result(p).success
        /\ Result(p).period = "30days"
        /\ \E g \in FetchesOf(p) : Len(net[g].response) = 2
        /\ Result(p).statistics.totalOrders = 0
        /\ Len(Result(p).monthlySpending) = 6
        /\ \A k \in 1..6 : Result(p).monthlySpending[k].spent = 0

----------------------------------------------------------------------------
(* C17: getCartState and getUserInfo fail soft.  With no stored value, and *)
(* likewise with a stored value that cannot be parsed, they return the     *)
(* empty-cart result (isEmpty true, itemCount 0, items empty, subtotal 0)  *)
(* or the not-logged-in result (isLoggedIn false) and do not raise; with a *)
(* valid stored cart the subtotal is the sum of qty x price over its line  *)
(* items.                                                                  *)

\* The stored value caller p read is missing or is not JSON.
Unreadable(p) == call[p].args.stored.kind \in {"null", "empty", "garbage"}

RECURSIVE SumOfLines(_)
SumOfLines(items) ==
    IF items = <<>> THEN 0
    ELSE Head(items).qty * Head(items).price + SumOfLines(Tail(items))

C17_ContextHelpersFailSoft ==
    \A p \in Procs :
        /\ Finished(p, "getCartState") =>
              /\ Gave(p)
              /\ Unreadable(p) =>
                    /\ Result(p).isEmpty
                    /\ Result(p).itemCount = 0
                    /\ Result(p).items = <<>>
                    /\ Result(p).subtotal.denotes = 0
              /\ (~Unreadable(p) /\ call[p].args.stored.value.object
                                 /\ call[p].args.stored.value.cartItems.def) =>
                    /\ Result(p).subtotal.denotes =
                          SumOfLines(call[p].args.stored.value.cartItems.val)
                    /\ Len(Result(p).items) = Len(call[p].args.stored.value.cartItems.val)
        /\ Finished(p, "getUserInfo") =>
              /\ Gave(p)
              /\ Unreadable(p) => ~Result(p).isLoggedIn

\* a stored text that is not JSON gives the empty cart
C17_Witness ==
    \E p \in Procs :
        /\ Finished(p, "getCartState")
        /\ call[p].args.stored.kind = "garbage"
        /\ Gave(p)
        /\ Result(p).isEmpty /\ Result(p).itemCount = 0 /\ Result(p).items = <<>>

----------------------------------------------------------------------------
(* C18: addToCart validates stock.  After any sequence of addToCart calls  *)
(* on a product whose countInStock stays the same, every successful call   *)
(* leaves the cart's line item of that product with qty <= countInStock,   *)
(* and a call that would take the line item's qty above countInStock fails *)
(* with the insufficient-stock error.                                      *)

C18_CartQtyWithinStock ==
    \A p \in Procs :
        (Finished(p, "addToCart") /\ Gave(p) /\ Result(p).success) =>
            /\ Result(p).product.qty <= Result(p).product.countInStock
            /\ \A i \in 1..Len(Result(p).cart.cartItems) :
                  Result(p).cart.cartItems[i]._id = call[p].productId =>
                      Result(p).cart.cartItems[i].qty <= server[call[p].productId].countInStock

----------------------------------------------------------------------------
(* C19: in updateProductDetails, updateProductStock and each iteration of  *)
(* bulkUpdateProducts the requests are awaited one after another, and the  *)
(* PUT for a product is issued only after the GET for that same product    *)
(* has come back OK; when that GET throws or is not OK, no PUT is issued   *)
(* for that product.                                                       *)

\* Fetch u of caller p follows its fetch g with none of its fetches between.
Next2(p, g, u) == g < u /\ \A k \in FetchesOf(p) : ~(g < k /\ k < u)

C19_PutOnlyAfterOkGet ==
    \A p \in Procs :
        call[p].fn \in Mutations =>
            /\ \A u \in PutsOf(p) :
                  \E g \in FetchesOf(p) :
                      /\ Next2(p, g, u)
                      /\ net[g].method = "GET" /\ net[g].ok
                      /\ net[g].item = net[u].item /\ net[g].id = net[u].id
            /\ \A g \in FetchesOf(p) :
                  (net[g].method = "GET" /\ ~net[g].ok) =>
                      \A u \in PutsOf(p) : net[u].item # net[g].item
            /\ pc[p] = "put" =>
                  \E g \in FetchesOf(p) :
                      /\ \A k \in FetchesOf(p) : k <= g
                      /\ net[g].method = "GET" /\ net[g].ok
                      /\ net[g].item = Max(loc[p].i, 1)

\* a batch whose first GET was not OK and whose second was: one PUT, for
\* the second identifier
C19_Witness ==
    \E p \in Procs :
        /\ Finished(p, "bulkUpdateProducts")
        /\ \E g \in FetchesOf(p) : net[g].method = "GET" /\ net[g].item = 1 /\ ~net[g].ok
        /\ \E u \in PutsOf(p) : net[u].item = 2
        /\ Cardinality(PutsOf(p)) = 1

----------------------------------------------------------------------------
(* C20: bulkUpdateProducts processes its identifiers one after another in  *)
(* input order.  The GET for identifier i+1 is issued only after the round *)
(* trip for identifier i has finished, and a failure for identifier i (GET *)
(* not OK, PUT not OK, or a thrown error) is recorded for that item and    *)
(* does not keep the fetch and the write from being attempted for every    *)
(* later identifier.                                                       *)

GetsOf(p, i) == {g \in FetchesOf(p) : net[g].method = "GET" /\ net[g].item = i}

C20_BulkSequentialInInputOrder ==
    \A p \in Procs :
        call[p].fn = "bulkUpdateProducts" =>
            LET ids == call[p].productIds.ids
            IN  /\ \A k \in FetchesOf(p) :
                      /\ net[k].item \in 1..Len(ids)
                      /\ net[k].id = ids[net[k].item]
                      /\ \A j \in FetchesOf(p) : j < k => net[j].item <= net[k].item
                      /\ net[k].method = "GET" =>
                            \A j \in FetchesOf(p) : j < k => net[j].item < net[k].item
                /\ pc[p] \in {"get", "put"} =>
                      \A i \in 1..(loc[p].i - 1) : GetsOf(p, i) # {}
                /\ BulkAccepted(p) =>
                      \A i \in 1..Len(ids) :
                          /\ Cardinality(GetsOf(p, i)) = 1
                          /\ ReadOf(p, i) # {} => \E u \in PutsOf(p) : net[u].item = i
                          /\ ~ItemUpdated(p, i) =>
                                /\ ~Result(p).results[i].success
                                /\ Result(p).results[i].productId = ids[i]
                                /\ Result(p).results[i].error # NoError

\* the PUT of the first identifier came back not OK; the second identifier
\* was fetched and written all the same
C20_Witness ==
    \E p \in Procs :
        /\ BulkAccepted(p)
        /\ Len(call[p].productIds.ids) = 2
        /\ \E u \in PutsOf(p) : net[u].item = 1 /\ ~net[u].ok
        /\ ItemUpdated(p, 2)
        /\ ~Result(p).results[1].success /\ Result(p).results[2].success

----------------------------------------------------------------------------
(* C21: the replacement object a mutation submits takes each of the seven  *)
(* writable fields from updates when the field is defined there and        *)
(* otherwise from the product just fetched, so a field the caller did not  *)
(* supply is written back with its fetched value; updateProductStock       *)
(* writes the six other fields back as fetched.                            *)

\* The value caller p passed for field f.
SuppliedValue(p, f) ==
    LET e == call[p].updates.entries
    IN  e[CHOOSE i \in 1..Len(e) : e[i].key = f /\ e[i].def].val

C21_UnsuppliedFieldsWrittenBack ==
    \A p \in Procs :
        call[p].fn \in Mutations =>
            \A u \in PutsOf(p) :
                \A g \in ReadOf(p, net[u].item) :
                    \A f \in WritableFields :
                        /\ (call[p].fn # "updateProductStock" /\ Supplied(p, f)) =>
                              net[u].body[f] = SuppliedValue(p, f)
                        /\ ~Supplied(p, f) => net[u].body[f] = net[g].response[f]

\* only the category was supplied (and brand passed as undefined): the PUT
\* carries the new category and the fetched name, price and brand
C21_Witness ==
    \E p \in Procs :
        /\ call[p].fn = "updateProductDetails"
        /\ Supplied(p, "category") /\ ~Supplied(p, "brand") /\ ~Supplied(p, "name")
        /\ \E u \in PutsOf(p) :
              /\ net[u].ok
              /\ net[u].body.category = "Audio"
              /\ net[u].body.name = "Airpods" /\ net[u].body.brand = "b-p1"

----------------------------------------------------------------------------
(* C22: getOrderHistory applies at most one of the day-count filter and    *)
(* the start/end date-range filter, plus the optional status filter: when  *)
(* days is supplied together with startDate or endDate, only one of the    *)
(* two date constraints restricts the returned orders.                     *)

\* Caller p called getOrderHistory with days = N > 0 and a startDate or an
\* endDate, and no status.
DaysAndRange(p) ==
    /\ call[p].fn = "getOrderHistory"
    /\ call[p].args.days.def /\ call[p].args.days.val > 0
    /\ call[p].args.startDate.def \/ call[p].args.endDate.def
    /\ call[p].args.status = ""

WithinDays(order, days) == order.age <= days.val

WithinRange(order, startDate, endDate) ==
    /\ startDate.def => order.age <= startDate.val
    /\ endDate.def => order.age >= endDate.val

C22_AtMostOneDateFilter ==
    \A p \in Procs :
        (pc[p] = "done" /\ DaysAndRange(p) /\ Gave(p) /\ Result(p).success) =>
            \A g \in FetchesOf(p) :
                LET f == call[p].args
                IN  \/ Ids(Result(p).orders) =
                          Ids(SelectSeq(net[g].response,
                                        LAMBDA order : WithinDays(order, f.days)))
                    \/ Ids(Result(p).orders) =
                          Ids(SelectSeq(net[g].response,
                                        LAMBDA order :
                                            WithinRange(order, f.startDate, f.endDate)))

----------------------------------------------------------------------------
(* C23: in getOrderStatistics, topProducts has at most 5 entries; the      *)
(* quantity of an entry is the sum of qty over all line items of that      *)
(* product name in the orders of the period; the entries are in            *)
(* non-increasing quantity order; no product left out has a larger         *)
(* quantity than one included; products of equal quantity appear in the    *)
(* order they are first met.                                               *)

RECURSIVE Lines(_)
Lines(orders) == IF orders = <<>> THEN <<>> ELSE Head(orders).orderItems \o Lines(Tail(orders))

RECURSIVE QtyOf(_, _)
QtyOf(items, name) ==
    IF items = <<>> THEN 0
    ELSE (IF Head(items).name = name THEN Head(items).qty ELSE 0) + QtyOf(Tail(items), name)

FirstMet(items, name) ==
    CHOOSE i \in 1..Len(items) :
        items[i].name = name /\ \A j \in 1..(i - 1) : items[j].name # name

----------------------------------------------------------------------------
(* C24: searchProducts returns exactly the sub-sequence of the server's    *)
(* product list, in server order, of the products that satisfy every       *)
(* supplied filter at once: price >= priceMin, price <= priceMax, category *)
(* equal without regard to case, rating >= minRating; a filter that is not *)
(* supplied excludes nothing; totalResults is the length of that list.     *)

\* The positions of the server's list a search with these arguments keeps.
Kept(listed, a) ==
    {i \in 1..Len(listed) :
        /\ (a.priceMin.def => listed[i].price >= a.priceMin.val)
        /\ (a.priceMax.def => listed[i].price <= a.priceMax.val)
        /\ (a.category # "" => toLowerCase(listed[i].category) = toLowerCase(a.category))
        /\ (a.minRating.def => listed[i].rating >= a.minRating.val)}

\* s is the sub-sequence of listed at the positions of keep, in order.
SubSeqAt(s, listed, keep) ==
    /\ Len(s) = Cardinality(keep)
    /\ \A k \in 1..Len(s) :
          \E i \in keep : /\ s[k] = listed[i]
                          /\ Cardinality({j \in keep : j < i}) = k - 1

C24_SearchFiltersConjoined ==
    \A p \in Procs :
        (Finished(p, "searchProducts") /\ Gave(p)) =>
            \A g \in FetchesOf(p) :
                net[g].ok =>
                    LET listed == net[g].response.products
                    IN  /\ SubSeqAt(Result(p).products, listed, Kept(listed, call[p].args))
                        /\ Result(p).totalResults = Len(Result(p).products)

\* all three products listed, priceMax 20, category 'electronics' and
\* minRating 4 supplied, priceMin not: Airpods and Camera are kept
C24_Witness ==
    \E p \in Procs :
        /\ Finished(p, "searchProducts") /\ Gave(p)
        /\ ~call[p].args.priceMin.def /\ call[p].args.priceMax.def
        /\ call[p].args.category = "electronics" /\ call[p].args.minRating.def
        /\ \E g \in FetchesOf(p) : net[g].ok /\ Len(net[g].response.products) = 3
        /\ Result(p).totalResults = 2
        /\ [k \in 1..2 |-> Result(p).products[k].name] = <<"Airpods", "Camera">>

----------------------------------------------------------------------------
(* C25: a successful findTopRatedLowStock returns exactly the products of  *)
(* the search result with rating >= minRating, of the category when one is *)
(* given, and countInStock <= maxStockLevel, in non-increasing rating      *)
(* order, products of equal rating in search order; totalResults is the    *)
(* length of the list and rawData.allSearchResults, a key the result has   *)
(* when the search found something, is in search order.                    *)

\* The positions of the server's list the finder's search keeps.
Searched(listed, a) ==
    {i \in 1..Len(listed) :
        /\ listed[i].rating >= a.minRating
        /\ (a.category # "" => toLowerCase(listed[i].category) = toLowerCase(a.category))}

\* The position in listed of each entry of s, s being made of entries of
\* listed that differ from one another.
PositionIn(listed, s) == [k \in 1..Len(s) |-> CHOOSE i \in 1..Len(listed) : listed[i] = s[k]]

C25_TopRatedLowStock ==
    \A p \in Procs :
        (Finished(p, "findTopRatedLowStock") /\ Gave(p) /\ Result(p).success) =>
            \A g \in FetchesOf(p) :
                net[g].ok =>
                    LET listed == net[g].response.products
                        a      == call[p].args
                        low    == {i \in Searched(listed, a) :
                                      listed[i].countInStock <= a.maxStockLevel}
                        found  == Result(p).products
                        at     == PositionIn(listed, found)
                    IN  /\ Len(found) = Cardinality(low)
                        /\ {found[k] : k \in 1..Len(found)} = {listed[i] : i \in low}
                        /\ \A j, k \in 1..Len(found) :
                              j < k => \/ found[j].rating > found[k].rating
                                       \/ /\ found[j].rating = found[k].rating
                                          /\ at[j] < at[k]
                        /\ Result(p).totalResults = Len(found)
                        /\ Result(p).allSearchResults.present = (Searched(listed, a) # {})
                        /\ SubSeqAt(Result(p).allSearchResults.list, listed,
                                    Searched(listed, a))

\* the default floor of 4 and ceiling of 10 over Airpods (4), iPhone (5)
\* and Camera (4): iPhone comes first, Airpods stays ahead of Camera
C25_Witness ==
    \E p \in Procs :
        /\ Finished(p, "findTopRatedLowStock") /\ Gave(p) /\ Result(p).success
        /\ \E g \in FetchesOf(p) : net[g].ok
        /\ Result(p).totalResults = 3
        /\ [k \in 1..3 |-> Result(p).products[k].name] = <<"iPhone", "Airpods", "Camera">>
        /\ [k \in 1..3 |-> Result(p).allSearchResults.list[k].name] = <<"Airpods", "iPhone", "Camera">>

----------------------------------------------------------------------------
(* C26: a call of addToCart that fails (no productId, a quantity that is   *)
(* not a positive integer, a product fetch that is not OK, fewer in stock  *)
(* than asked for) and a call of removeFromCartTool that fails (no         *)
(* productId, no line item of that id) dispatch no cart action and leave   *)
(* the store's cart as it was; removeFromCartTool dispatches the remove    *)
(* action only for an id the cart holds.                                   *)

\* The step is one of caller p's call; the call comes to its end in it.
Steps(p) == pc'[p] # pc[p]
Ends(p) == pc[p] # "done" /\ pc'[p] = "done"

C26_FailedCartCallsLeaveCart ==
    [][\A p \in Procs :
          /\ (call'[p].fn \in {"addToCart", "removeFromCartTool"} /\ Steps(p) /\ ~Ends(p)) =>
                (cart' = cart /\ dispatched' = dispatched)
          /\ (call'[p].fn \in {"addToCart", "removeFromCartTool"} /\ Ends(p)
                /\ ~ret'[p].value.success) =>
                (cart' = cart /\ dispatched' = dispatched)
          /\ (call'[p].fn = "removeFromCartTool" /\ Ends(p) /\ dispatched' # dispatched) =>
                /\ dispatched' = Append(dispatched, Action(p, "cart/removeFromCart"))
                /\ \E i \in 1..Len(cart.cartItems) : cart.cartItems[i]._id = call'[p].productId
      ]_vars

\* after an addToCart refused for want of stock and a removeFromCartTool of
\* a product the cart does not hold, the cart still has its line items and
\* nothing has been dispatched
C26_Witness ==
    /\ Finished(1, "addToCart") /\ ~Result(1).success
    /\ Result(1).error.kind = "Insufficient stock"
    /\ Finished(2, "removeFromCartTool") /\ ~Result(2).success
    /\ Result(2).error.kind = "Item not found in cart"
    /\ cart.cartItems # <<>>
    /\ dispatched = <<>>

----------------------------------------------------------------------------
(* C27: in getOrderHistory and getOrderStatistics, whatever the isPaid and *)
(* isDelivered flags of the orders, pendingOrders is the number of         *)
(* matching orders whose derived status is 'pending'.                      *)

\* How many of these orders have the derived status 'pending'.
PendingAmong(orders) ==
    Cardinality({i \in 1..Len(orders) :
                    Derived(orders[i].isPaid, orders[i].isDelivered) = "pending"})

C27_PendingOrdersCountsPendingStatus ==
    \A p \in Procs :
        /\ (Finished(p, "getOrderHistory") /\ Gave(p) /\ Result(p).success) =>
              Result(p).pendingOrders = PendingAmong(Result(p).orders)
        /\ (Finished(p, "getOrderStatistics") /\ Gave(p) /\ Result(p).success) =>
              \A g \in FetchesOf(p) :
                  Result(p).statistics.pendingOrders =
                      PendingAmong(Matching(net[g].response, Result(p).period))

----------------------------------------------------------------------------
(* C28: the cache-invalidation signal is dispatched only after a           *)
(* successful product mutation: a call of updateProductDetails,            *)
(* updateProductStock or bulkUpdateProducts none of whose PUTs came back   *)
(* OK, a batch whose every item failed included, dispatches no             *)
(* invalidation signal.                                                    *)

C28_InvalidationOnlyAfterWrite ==
    \A p \in Procs :
        call[p].fn \in Mutations =>
            \A k \in DispatchesOf(p) :
                \E u \in WritesOf(p) : u <= invalidations[k].after

----------------------------------------------------------------------------
(* C29: in SalesDashboard and OrderHistoryCard every fetch ends at some    *)
(* time with loading set to false, and whenever the most recent fetch      *)
(* succeeded the component shows the fetched data and not an error, also   *)
(* when an earlier fetch of the same instance had failed and the user then *)
(* asked for a refresh or opened the modal again.                          *)

\* The run of the fetch function that came to its end last.
LastSettled == view.settled[Len(view.settled)]

\* What the modal's body renders: loading ? spinner : error ? alert : data
Rendered ==
    IF view.loading THEN "spinner" ELSE IF view.error # NoError THEN "error" ELSE "data"

\* Every fetch under way comes back, and the step in which it does sets
\* loading to false.
FetchesComeBack == \A p \in Procs : (pc[p] = "get") ~> (pc[p] = "done")
ComingBackEndsLoading ==
    [][\A p \in Procs : (pc[p] = "get" /\ pc'[p] = "done") => ~view'.loading]_vars

C29_LastFetchSucceededShowsData ==
    (/\ view.component # "none"
     /\ view.settled # <<>>
     /\ \A p \in Procs : pc[p] # "get") =>
        (Result(LastSettled).success => Rendered = "data")

----------------------------------------------------------------------------
(* C30: whenever SalesDashboard displays data after a successful           *)
(* getOrderStatistics call, the statistics, the monthly revenue chart and  *)
(* the top products it displays are those the call returned, for every     *)
(* result, one with zero orders or with no spend in the last six months    *)
(* included.                                                               *)

C30_DashboardShowsReturnedStatistics ==
    (/\ view.component = "SalesDashboard"
     /\ Rendered = "data"
     /\ view.data # Null) =>
        LET returned == Result(view.from)
        IN  /\ view.data.statistics.totalOrders = returned.statistics.totalOrders
            /\ view.data.statistics = returned.statistics
            /\ view.data.monthlySpending = returned.monthlySpending
            /\ view.data.topProducts = returned.topProducts

====
